---- MODULE Spec2Model ----
(***************************************************************************)
(* Contact scraper: the crawl-and-extract engine (scraper.py) and the      *)
(* enrichment orchestrator (enrichment.py, ai_client.py).                  *)
(*                                                                         *)
(* Strings are sequences of one-character strings, so that lower-casing,   *)
(* stripping and digit filtering are computed, not assumed.  Python dicts  *)
(* are sequences of <<key, value>> pairs in insertion order.               *)
(***************************************************************************)
EXTENDS Integers, Sequences, FiniteSets, TLC

VARIABLES
    settings,             \* CrawlSettings of the crawl
    queue,                \* run: deque of <<url, depth>>
    visited,              \* run: set of normalized URLs
    queued,               \* run: set of normalized URLs
    contacts_map,         \* run: dict (tipo, valor) -> Contact
    restricted_detected,  \* run: bool
    result,               \* run: CrawlResult
    pc,                   \* run: "loop" while in the while loop, "done" after return
    fetches,              \* number of self._session.get calls issued by run
    slept,                \* whether the iteration of the latest fetch called time.sleep
    page_contacts,        \* run's local: the contacts extracted from the latest HTML page
    api_key,              \* whether OPENAI_API_KEY is set
    max_contacts,         \* MAX_CONTACTS_PER_REQUEST (OPENAI_ENRICH_MAX_CONTACTS)
    contacts_list,        \* enrich_contacts: list(contacts), the argument's items
    epc,                  \* enrich_contacts: "call", "chunks", "query", "returned", "raised"
    start,                \* enrich_contacts: start of the current chunk (0-based)
    enriched,             \* enrich_contacts: list being built, then the returned list
    enriched_obj,         \* which dict each item of enriched is: NewObject, or i for
                          \* the i-th item of the argument
    notes,                \* enrich_contacts: notes
    invalid_count,        \* enrich_contacts
    flagged_count,        \* enrich_contacts
    stack,                \* frames of _query_contacts_with_retry, outermost first
    ret,                  \* what the call that just ended returned or raised
    requests,             \* number of responses.create requests issued
    splits,               \* number of batches split in two
    rpc,                  \* respond: "retry" in the loop of _retry, "returned", "raised"
    r_attempt,            \* _retry: attempts made so far
    r_last,               \* _retry: last
    r_response,           \* call: the response of the latest request
    r_result,             \* respond: what it returned or raised
    urls,                 \* run_scraper_job: the seed URLs of the job
    jpc,                  \* run_scraper_job: "sites", "crawl", "enrich", "done"
    job,                  \* jobs[job_id]: the JobData of the job
    index,                \* run_scraper_job: index of the current site (0-based)
    all_contacts,         \* run_scraper_job: dict (tipo, valor, url) -> contact
    aggregated_errors,    \* run_scraper_job
    site_results,         \* run_scraper_job
    total_visited,        \* run_scraper_job
    total_links,          \* run_scraper_job
    completed_steps,      \* run_scraper_job
    restricted_sites,     \* run_scraper_job
    completed_sites,      \* run_scraper_job
    found_contacts,       \* run_scraper_job
    pages_for_url,        \* run_scraper_job: pages announced by progress_callback
    export_raised,        \* whether export_contacts_to_excel raised
    p_html,               \* the page handed to the two page functions
    p_base_url,           \* _collect_links: base_url
    p_max_links,          \* settings.max_links_per_page
    ppc,                  \* which of the two page functions have returned
    p_contacts,           \* what _extract_contacts_from_html returned
    p_links,              \* what _collect_links returned
    s_job,                \* jobs[job_id]: the JobData the two threads share
    jobs_lock,            \* who holds jobs_lock
    wpc,                  \* the worker thread: position in update_job
    w_call,               \* the worker thread: the call of update_job it is at
    w_pending,            \* update_job: the kwargs not yet set
    rdpc,                 \* the request thread: position in job_status
    s_seen,               \* to_dict: the attribute values read so far
    s_snapshot,           \* what job_status answered last
    committed,            \* the states of the job between calls of update_job
    env_key,              \* ai_client: whether OPENAI_API_KEY is set in the process
    _client,              \* ai_client: the module-level _client, NoClient or an object
    constructed,          \* how many times OpenAI(api_key=...) was called
    tpc,                  \* each worker thread: its position in respond
    t_client,             \* each worker thread: what _get_client returned to it
    t_calls               \* each worker thread: the calls of respond it has made

crawlVars == <<settings, queue, visited, queued, contacts_map,
               restricted_detected, result, pc, fetches, slept,
               page_contacts>>

enrichVars == <<api_key, max_contacts, contacts_list, epc, start, enriched,
                enriched_obj, notes, invalid_count, flagged_count, stack, ret, requests, splits>>

clientVars == <<rpc, r_attempt, r_last, r_response, r_result>>

jobVars == <<urls, jpc, job, index, all_contacts, aggregated_errors, site_results,
             total_visited, total_links, completed_steps, restricted_sites,
             completed_sites, found_contacts, pages_for_url, export_raised>>

pageVars == <<p_html, p_base_url, p_max_links, ppc, p_contacts, p_links>>

statusVars == <<s_job, jobs_lock, wpc, w_call, w_pending, rdpc, s_seen, s_snapshot,
                committed>>

poolVars == <<env_key, _client, constructed, tpc, t_client, t_calls>>

vars == <<crawlVars, enrichVars, clientVars, jobVars, pageVars, statusVars, poolVars>>

\* the variables a crawl (but for its progress callback), an enrichment, a
\* call of respond leaves alone
notCrawlVars == <<enrichVars, clientVars, pageVars, statusVars, poolVars>>
notEnrichVars == <<crawlVars, clientVars, jobVars, pageVars, statusVars, poolVars>>
notClientVars == <<crawlVars, enrichVars, jobVars, pageVars, statusVars, poolVars>>
notJobVars == <<clientVars, pageVars, statusVars, poolVars>>
notPageVars == <<crawlVars, enrichVars, clientVars, jobVars, statusVars, poolVars>>
notStatusVars == <<crawlVars, enrichVars, clientVars, jobVars, pageVars, poolVars>>
notPoolVars == <<crawlVars, enrichVars, clientVars, jobVars, pageVars, statusVars>>

(***************************************************************************)
(* Bounds of the crawl model                                               *)
(***************************************************************************)
NumUrls == 3         \* pages of the site universe; page 1 is the seed
MaxDepthBound == 2   \* settings.max_depth ranges over 0..MaxDepthBound
MaxAnchors == 2      \* link anchors on one fetched page
MaxContacts == 3     \* contacts handed to enrich_contacts

(***************************************************************************)
(* Strings                                                                 *)
(***************************************************************************)
UpperLetters == {"A", "B", "C", "O", "S", "W", "X"}
LowerLetters == {"a", "b", "c", "o", "s", "w", "x"}
Digits == {"0", "1", "2", "3", "4", "5", "6", "7", "8", "9"}

\* str.lower() on one character
LowerChar(c) ==
    CASE c = "A" -> "a"
      [] c = "B" -> "b"
      [] c = "C" -> "c"
      [] c = "O" -> "o"
      [] c = "S" -> "s"
      [] c = "W" -> "w"
      [] c = "X" -> "x"
      [] OTHER -> c

\* str.lower()
Lower(s) == [i \in 1..Len(s) |-> LowerChar(s[i])]

RECURSIVE Filter(_, _)
\* the characters of s that are in set keep, in order
Filter(s, keep) ==
    IF s = <<>> THEN <<>>
    ELSE (IF Head(s) \in keep THEN <<Head(s)>> ELSE <<>>) \o Filter(Tail(s), keep)

\* re.sub(r"\D", "", phone)
OnlyDigits(s) == Filter(s, Digits)

RECURSIVE LStrip(_)
LStrip(s) == IF s # <<>> /\ Head(s) = " " THEN LStrip(Tail(s)) ELSE s

RECURSIVE RStrip(_)
RStrip(s) ==
    IF s # <<>> /\ s[Len(s)] = " " THEN RStrip(SubSeq(s, 1, Len(s) - 1)) ELSE s

\* str.strip()
Strip(s) == RStrip(LStrip(s))

RECURSIVE LStripChars(_, _)
\* s.lstrip(chars): the leading characters that are in chars removed
LStripChars(s, chars) ==
    IF s # <<>> /\ Head(s) \in chars THEN LStripChars(Tail(s), chars) ELSE s

\* s.endswith(suffix)
EndsWith(s, suffix) ==
    Len(suffix) <= Len(s) /\ SubSeq(s, Len(s) - Len(suffix) + 1, Len(s)) = suffix

\* s.startswith(prefix)
StartsWith(s, prefix) ==
    Len(prefix) <= Len(s) /\ SubSeq(s, 1, Len(prefix)) = prefix

(***************************************************************************)
(* Python dict as a sequence of <<key, value>> pairs                       *)
(***************************************************************************)
DictHas(d, k) == \E i \in 1..Len(d) : d[i][1] = k

\* d[k] = v for a key not yet present; dict.setdefault(k, v)
DictSetDefault(d, k, v) == IF DictHas(d, k) THEN d ELSE Append(d, <<k, v>>)

\* list(d.values())
DictValues(d) == [i \in 1..Len(d) |-> d[i][2]]

DictKeys(d) == [i \in 1..Len(d) |-> d[i][1]]

(***************************************************************************)
(* Pages.  A fetched body is what BeautifulSoup and the two regular        *)
(* expressions see in it: its <a href> anchors in document order, and the  *)
(* matches of EMAIL_RE and PHONE_RE in its visible text, in text order.    *)
(* An anchor's href is its scheme and the text after the first colon; a    *)
(* link anchor carries the absolute URL urljoin gives it.  A URL is its    *)
(* scheme, its netloc, its path (the number of the page and the extension  *)
(* the path ends with) and its fragment.                                   *)
(***************************************************************************)
\* the netloc of the seed of a crawl
SeedNetloc == <<"x", ".", "c", "o">>

UrlAt(scheme, netloc, p, ext, f) ==
    [scheme |-> scheme, netloc |-> netloc, page |-> p, ext |-> ext, fragment |-> f]

NoUrl == UrlAt("", <<>>, 0, <<>>, "")

\* page p of the seed's site
Url(p, f) == UrlAt("https", SeedNetloc, p, <<>>, f)

MailtoAnchor(rest) == [scheme |-> "mailto", rest |-> rest, target |-> NoUrl, score |-> 0]

TelAnchor(rest) == [scheme |-> "tel", rest |-> rest, target |-> NoUrl, score |-> 0]

LinkAnchor(u, sc) == [scheme |-> u.scheme, rest |-> <<>>, target |-> u, score |-> sc]

Html(anchors, emails, phones) ==
    [anchors |-> anchors, text_emails |-> emails, text_phones |-> phones]

(***************************************************************************)
(* scraper.py: contact extraction                                          *)
(***************************************************************************)
EmailLocalChars == UpperLetters \cup LowerLetters \cup Digits \cup {".", "_", "%", "+", "-"}
EmailDomainChars == UpperLetters \cup LowerLetters \cup Digits \cup {".", "-"}
EmailTldChars == UpperLetters \cup LowerLetters

\* EMAIL_RE.fullmatch(s): [A-Z0-9._%+-]+@[A-Z0-9.-]+\.[A-Z]{2,} with re.I
EMAIL_RE_fullmatch(s) ==
    \E at \in 2..Len(s) : \E dot \in (at + 2)..(Len(s) - 2) :
        /\ s[at] = "@"
        /\ s[dot] = "."
        /\ \A i \in 1..(at - 1) : s[i] \in EmailLocalChars
        /\ \A i \in (at + 1)..(dot - 1) : s[i] \in EmailDomainChars
        /\ \A i \in (dot + 1)..Len(s) : s[i] \in EmailTldChars

RECURSIVE BeforeFirst(_, _)
\* s.split(ch)[0]
BeforeFirst(s, ch) ==
    IF s = <<>> \/ Head(s) = ch THEN <<>> ELSE <<Head(s)>> \o BeforeFirst(Tail(s), ch)

_valid_phone_digitsFromSix(digits) == 6 <= Len(digits) /\ Len(digits) <= 15

\* _valid_phone_digits
_valid_phone_digits(digits) == 7 <= Len(digits) /\ Len(digits) <= 15

\* _normalize_phone
_normalize_phone(phone) ==
    LET digits == OnlyDigits(phone)
        stripped == Strip(phone)
    IN  IF stripped # <<>> /\ Head(stripped) = "+" THEN <<"+">> \o digits ELSE digits

\* a Contact; descripcion is abstracted to the pass that produced it
\* (_anchor_description for an anchor, _text_context for a text match)
Contact(tipo, valor, descripcion, url) ==
    [tipo |-> tipo, valor |-> valor, descripcion |-> descripcion, url |-> url]

\* the body of the loop over anchors: one anchor applied to the page dict
ExtractAnchor(contacts, anchor, page_url) ==
    IF anchor.scheme = "mailto" THEN
        LET email == Strip(BeforeFirst(anchor.rest, "?"))
        IN  IF EMAIL_RE_fullmatch(email)
            THEN DictSetDefault(contacts, <<"correo", Lower(email)>>,
                                Contact("correo", email, "anchor", page_url))
            ELSE contacts
    ELSE IF anchor.scheme = "tel" THEN
        LET phone == Strip(anchor.rest)
            digits == OnlyDigits(phone)
        IN  IF _valid_phone_digits(digits)
            THEN DictSetDefault(contacts, <<"telefono", _normalize_phone(phone)>>,
                                Contact("telefono", _normalize_phone(phone), "anchor", page_url))
            ELSE contacts
    ELSE contacts

RECURSIVE ExtractAnchors(_, _, _)
ExtractAnchors(contacts, anchors, page_url) ==
    IF anchors = <<>> THEN contacts
    ELSE ExtractAnchors(ExtractAnchor(contacts, Head(anchors), page_url),
                        Tail(anchors), page_url)

ExtractTextEmailOverriding(contacts, email, page_url) ==
    LET key == <<"correo", Lower(email)>>
        entry == <<key, Contact("correo", email, "text", page_url)>>
    IN  IF ~DictHas(contacts, key)
        THEN Append(contacts, entry)
        ELSE [i \in 1..Len(contacts) |-> IF contacts[i][1] = key THEN entry ELSE contacts[i]]

\* the body of the loop over EMAIL_RE.finditer(text_content)
ExtractTextEmail(contacts, email, page_url) ==
    LET key == <<"correo", Lower(email)>>
    IN  IF ~DictHas(contacts, key)
        THEN Append(contacts, <<key, Contact("correo", email, "text", page_url)>>)
        ELSE contacts

RECURSIVE ExtractTextEmails(_, _, _)
ExtractTextEmails(contacts, emails, page_url) ==
    IF emails = <<>> THEN contacts
    ELSE ExtractTextEmails(ExtractTextEmail(contacts, Head(emails), page_url),
                           Tail(emails), page_url)

\* the body of the loop over PHONE_RE.finditer(text_content)
ExtractTextPhone(contacts, phone, page_url) ==
    LET digits == OnlyDigits(phone)
        key == <<"telefono", _normalize_phone(phone)>>
    IN  IF ~_valid_phone_digits(digits) THEN contacts
        ELSE IF ~DictHas(contacts, key)
        THEN Append(contacts, <<key, Contact("telefono", _normalize_phone(phone), "text", page_url)>>)
        ELSE contacts

RECURSIVE ExtractTextPhones(_, _, _)
ExtractTextPhones(contacts, phones, page_url) ==
    IF phones = <<>> THEN contacts
    ELSE ExtractTextPhones(ExtractTextPhone(contacts, Head(phones), page_url),
                           Tail(phones), page_url)

\* _extract_contacts_from_html
_extract_contacts_from_html(html, page_url) ==
    DictValues(
        ExtractTextPhones(
            ExtractTextEmails(
                ExtractAnchors(<<>>, html.anchors, page_url),
                html.text_emails, page_url),
            html.text_phones, page_url))

(***************************************************************************)
(* scraper.py: link collection                                             *)
(***************************************************************************)
\* _normalize_url: the URL without its fragment
_normalize_url(url) == [url EXCEPT !.fragment = ""]

\* the entries of skip_ext that the alphabet of the model can spell
skip_ext == {<<".", "c", "s", "s">>}

\* base_domain.split(":", 1)[0].lstrip("www."), and the same of a target:
\* lstrip removes every leading character that is one of 'w' and '.'
CleanDomain(netloc) == LStripChars(BeforeFirst(netloc, ":"), {"w", "."})

\* target_domain and not target_domain.endswith(base_clean): the anchor is
\* dropped
OutOfScope(target, base_url) ==
    LET base_clean == CleanDomain(base_url.netloc)
        target_domain == CleanDomain(target.netloc)
    IN  target_domain # <<>> /\ ~EndsWith(target_domain, base_clean)

\* the tests of the loop over anchors of _collect_links that drop an anchor
Dropped(a, base_url) ==
    \/ a.scheme \notin {"http", "https"}
    \/ \E ext \in skip_ext : EndsWith(Lower(a.target.ext), ext)
    \/ OutOfScope(a.target, base_url)

\* the loop over anchors of _collect_links: candidates (score, normalized)
\* of the anchors that are kept, each normalized URL once (the seen set)
RECURSIVE Candidates(_, _, _)
Candidates(anchors, seen, base_url) ==
    IF anchors = <<>> THEN <<>>
    ELSE LET a == Head(anchors)
             normalized == _normalize_url(a.target)
         IN  IF Dropped(a, base_url) \/ normalized \in seen
             THEN Candidates(Tail(anchors), seen, base_url)
             ELSE <<<<a.score, normalized>>>>
                  \o Candidates(Tail(anchors), seen \cup {normalized}, base_url)

\* one candidate put into a list sorted by descending score before the
\* candidates of the same score
InsertByScoreUnstable(sorted, c) ==
    LET before == {i \in 1..Len(sorted) : sorted[i][1] > c[1]}
        k == Cardinality(before)
    IN  SubSeq(sorted, 1, k) \o <<c>> \o SubSeq(sorted, k + 1, Len(sorted))

\* one candidate put into a list already sorted by descending score, after
\* every candidate of the same or a higher score
InsertByScore(sorted, c) ==
    LET before == {i \in 1..Len(sorted) : sorted[i][1] >= c[1]}
        k == Cardinality(before)
    IN  SubSeq(sorted, 1, k) \o <<c>> \o SubSeq(sorted, k + 1, Len(sorted))

RECURSIVE SortByScore(_, _)
\* candidates.sort(key=lambda item: item[0], reverse=True): stable
SortByScore(sorted, cands) ==
    IF cands = <<>> THEN sorted
    ELSE SortByScore(InsertByScore(sorted, Head(cands)), Tail(cands))

Min(a, b) == IF a <= b THEN a ELSE b

Max(a, b) == IF a >= b THEN a ELSE b

\* _collect_links
_collect_links(html, base_url, max_links_per_page) ==
    LET candidates == SortByScore(<<>>, Candidates(html.anchors, {}, base_url))
        kept == SubSeq(candidates, 1, Min(max_links_per_page, Len(candidates)))
    IN  [i \in 1..Len(kept) |-> kept[i][2]]

(***************************************************************************)
(* scraper.py: ContactScraper.run                                          *)
(***************************************************************************)
RESTRICTED_STATUSWithout403 == {401, 429, 503}

RESTRICTED_STATUS == {401, 403, 429, 503}

\* status codes a page may answer with
Statuses == RESTRICTED_STATUS \cup {200, 404}

SeedUrl == Url(1, "")

Settings == [base_url : {SeedUrl},
             max_pages : 1..NumUrls,
             max_depth : 0..MaxDepthBound,
             max_links_per_page : 1..MaxAnchors]

\* CrawlResult()
NewCrawlResult ==
    [contacts |-> <<>>, status |-> "OK", visited_pages |-> 0,
     explored_links |-> 0, errors |-> <<>>]

\* sequences over S of length at most n
BSeq(S, n) == UNION {[1..k -> S] : k \in 0..n}

EmailUpper == <<"A", "@", "x", ".", "c", "o">>
EmailLower == <<"a", "@", "x", ".", "c", "o">>
PhonePlus == <<"+", "1", " ", "2", "3", "4", "-", "5", "6", "7", "8">>

\* contact content of the pages of the crawled site
CrawlContactParts ==
    { Html(<<>>, <<>>, <<>>),
      Html(<<MailtoAnchor(EmailUpper)>>, <<>>, <<>>),
      Html(<<TelAnchor(PhonePlus)>>, <<EmailLower>>, <<PhonePlus>>),
      Html(<<MailtoAnchor(EmailUpper), TelAnchor(PhonePlus)>>, <<>>, <<>>) }

\* link anchors of the pages of the crawled site
CrawlLinkAnchors ==
    {LinkAnchor(Url(p, ""), 0) : p \in 2..NumUrls} \cup {LinkAnchor(Url(1, "top"), 6)}

\* link lists of one page: anchors without repetition, the links to other
\* pages in the order of the pages (the pages are alike) and the link to the
\* seed anywhere among them, and one anchor written twice (the case the seen
\* set of _collect_links drops)
CrawlLinkLists ==
    {l \in BSeq(CrawlLinkAnchors, MaxAnchors) :
        \/ \A i, j \in 1..Len(l) :
              /\ l[i] = l[j] => i = j
              /\ (i < j /\ l[i].score = 0 /\ l[j].score = 0)
                    => l[i].target.page < l[j].target.page
        \/ Len(l) = 2 /\ l[1] = l[2]}

\* response bodies of the crawled site: a page without contacts has any of
\* the link lists, a page with contacts has at most one link
CrawlBodies ==
    {Html(l, <<>>, <<>>) : l \in CrawlLinkLists}
    \cup {Html(c.anchors \o l, c.text_emails, c.text_phones) :
            c \in CrawlContactParts, l \in {k \in CrawlLinkLists : Len(k) <= 1}}

EmptyBody == Html(<<>>, <<>>, <<>>)

\* the body of an error page that holds an address and a link
ErrorPageBody == Html(<<MailtoAnchor(EmailUpper), LinkAnchor(Url(2, ""), 0)>>, <<>>, <<>>)

\* outcomes of self._session.get: a RequestException, or a response.  run
\* treats every non-restricted status alike, so bodies are enumerated under
\* 200, and under 403 for an error page that is text/html.
FetchOutcomes ==
    {[kind |-> "exc", status_code |-> 0, is_html |-> FALSE, text |-> EmptyBody]}
    \cup {[kind |-> "response", status_code |-> st, is_html |-> FALSE, text |-> EmptyBody] :
            st \in Statuses}
    \cup {[kind |-> "response", status_code |-> 403, is_html |-> TRUE, text |-> ErrorPageBody]}
    \cup {[kind |-> "response", status_code |-> st, is_html |-> TRUE, text |-> b] :
            st \in {200}, b \in CrawlBodies}

(***************************************************************************)
(* webapp.py: the job record and the progress callback of a crawl          *)
(***************************************************************************)
\* JobData(...) as start_job stores it; progress is the fraction <<n, d>>
NewJobData(total_steps) ==
    [total_steps |-> total_steps, status |-> "PENDING", progress |-> <<0, 1>>,
     current_step |-> 0, label |-> "", visited_pages |-> 0, explored_links |-> 0,
     contacts |-> <<>>, errors |-> <<>>, error_message |-> "None",
     file_path |-> "None", completed_at |-> "None", finished |-> FALSE,
     current_url |-> NoUrl, current_url_index |-> 0, site_results |-> <<>>,
     notices |-> <<>>]

\* the loop of update_job: setattr for every key that is a field of the job
update_job(j, kwargs) ==
    [f \in DOMAIN j |-> IF f \in DOMAIN kwargs THEN kwargs[f] ELSE j[f]]

\* int(round(n / d * 100)): round takes a half to the even neighbour
RoundPercent(n, d) ==
    LET q == (100 * n) \div d
        r == (100 * n) % d
    IN  IF 2 * r < d THEN q
        ELSE IF 2 * r > d THEN q + 1
        ELSE IF q % 2 = 0 THEN q ELSE q + 1

\* JobData.to_dict on the fields j: what job_status answers
to_dict(j) ==
    [status |-> j.status, finished |-> j.finished, progress |-> j.progress,
     progress_percent |-> Max(0, Min(100, RoundPercent(j.progress[1], j.progress[2]))),
     label |-> j.label, visited_pages |-> j.visited_pages,
     explored_links |-> j.explored_links, errors |-> j.errors,
     error_message |-> j.error_message,
     contacts |-> IF j.finished /\ j.status # "ERROR" THEN j.contacts ELSE <<>>,
     contacts_count |-> Len(j.contacts), current_url |-> j.current_url,
     current_url_index |-> j.current_url_index, site_results |-> j.site_results,
     notices |-> j.notices,
     download_url |-> IF j.file_path # "None" THEN "download" ELSE "None"]

\* no request for the status of a job is served
StatusIdle ==
    /\ s_job = NewJobData(1)
    /\ jobs_lock = "free"
    /\ wpc = "idle"
    /\ w_call = 0
    /\ w_pending = <<>>
    /\ rdpc = "idle"
    /\ s_seen = <<>>
    /\ s_snapshot = to_dict(NewJobData(1))
    /\ committed = {}

\* _client: OpenAI | None = None
NoClient == 0

\* no worker thread calls respond
PoolIdle ==
    /\ env_key = FALSE
    /\ _client = NoClient
    /\ constructed = 0
    /\ tpc = <<>>
    /\ t_client = <<>>
    /\ t_calls = <<>>

\* no job is running
JobIdle ==
    /\ urls = <<>>
    /\ jpc = "idle"
    /\ job = NewJobData(1)
    /\ index = 0
    /\ all_contacts = <<>>
    /\ aggregated_errors = <<>>
    /\ site_results = <<>>
    /\ total_visited = 0
    /\ total_links = 0
    /\ completed_steps = 0
    /\ restricted_sites = 0
    /\ completed_sites = 0
    /\ found_contacts = FALSE
    /\ pages_for_url = 0
    /\ export_raised = FALSE

\* progress_callback of run_scraper_job, called by run for the page it is
\* about to fetch
progress_callback ==
    LET max_pages == settings.max_pages
        base_completed_steps == index * max_pages
        base_visited_pages == total_visited
        pages == Min(pages_for_url + 1, max_pages)
    IN  /\ pages_for_url' = pages
        /\ completed_steps' = base_completed_steps + pages
        /\ job' = update_job(job,
                     [status |-> "RUNNING",
                      current_step |-> base_completed_steps + pages,
                      progress |-> <<base_completed_steps + pages, job.total_steps>>,
                      label |-> "page",
                      visited_pages |-> base_visited_pages + pages,
                      explored_links |-> total_links,
                      current_url |-> urls[index + 1],
                      current_url_index |-> index + 1])
        /\ UNCHANGED <<urls, jpc, index, all_contacts, aggregated_errors, site_results,
                       total_visited, total_links, restricted_sites, completed_sites,
                       found_contacts, export_raised>>

\* if progress: progress(...); run is called with the callback by a job only
Progress == IF jpc = "crawl" THEN progress_callback ELSE UNCHANGED jobVars

\* the pages of the sites a job crawls: no contact, an address in an anchor,
\* the same address in lower case in the text with a link to the second seed
JobBodies ==
    { Html(<<>>, <<>>, <<>>),
      Html(<<MailtoAnchor(EmailUpper)>>, <<>>, <<>>),
      Html(<<LinkAnchor(Url(2, ""), 0)>>, <<EmailLower>>, <<>>) }

\* outcomes of self._session.get in the crawls of a job
JobFetchOutcomes ==
    {[kind |-> "exc", status_code |-> 0, is_html |-> FALSE, text |-> EmptyBody],
     [kind |-> "response", status_code |-> 403, is_html |-> FALSE, text |-> EmptyBody]}
    \cup {[kind |-> "response", status_code |-> 200, is_html |-> TRUE, text |-> b] :
            b \in JobBodies}

RECURSIVE MergeContactsOverwriting(_, _)
\* for contact in page_contacts: contacts_map[key] = contact
MergeContactsOverwriting(map, new_contacts) ==
    IF new_contacts = <<>> THEN map
    ELSE LET contact == Head(new_contacts)
             key == <<contact.tipo, contact.valor>>
         IN  MergeContactsOverwriting(
                 IF ~DictHas(map, key) THEN Append(map, <<key, contact>>)
                 ELSE [i \in 1..Len(map) |->
                          IF map[i][1] = key THEN <<key, contact>> ELSE map[i]],
                 Tail(new_contacts))

RECURSIVE MergeContacts(_, _)
\* for contact in page_contacts: if key not in contacts_map: contacts_map[key] = contact
MergeContacts(map, new_contacts) ==
    IF new_contacts = <<>> THEN map
    ELSE LET contact == Head(new_contacts)
             key == <<contact.tipo, contact.valor>>
         IN  MergeContacts(IF ~DictHas(map, key) THEN Append(map, <<key, contact>>) ELSE map,
                           Tail(new_contacts))

RECURSIVE EnqueueLinksTwoDeeper(_, _, _, _, _)
EnqueueLinksTwoDeeper(q, qd, vis, links, depth) ==
    IF links = <<>> THEN [queue |-> q, queued |-> qd]
    ELSE LET link == Head(links)
         IN  IF link \notin vis /\ link \notin qd
             THEN EnqueueLinksTwoDeeper(Append(q, <<link, depth + 2>>), qd \cup {link}, vis,
                                        Tail(links), depth)
             ELSE EnqueueLinksTwoDeeper(q, qd, vis, Tail(links), depth)

RECURSIVE EnqueueLinksAgain(_, _, _, _, _)
EnqueueLinksAgain(q, qd, vis, links, depth) ==
    IF links = <<>> THEN [queue |-> q, queued |-> qd]
    ELSE LET link == Head(links)
         IN  IF link \notin vis
             THEN EnqueueLinksAgain(Append(q, <<link, depth + 1>>), qd \cup {link}, vis,
                                    Tail(links), depth)
             ELSE EnqueueLinksAgain(q, qd, vis, Tail(links), depth)

RECURSIVE EnqueueLinks(_, _, _, _, _)
\* for link in links: if link not in visited and link not in queued: enqueue
EnqueueLinks(q, qd, vis, links, depth) ==
    IF links = <<>> THEN [queue |-> q, queued |-> qd]
    ELSE LET link == Head(links)
         IN  IF link \notin vis /\ link \notin qd
             THEN EnqueueLinks(Append(q, <<link, depth + 1>>), qd \cup {link}, vis,
                               Tail(links), depth)
             ELSE EnqueueLinks(q, qd, vis, Tail(links), depth)

\* the while condition with the page budget off by one
LoopConditionOffByOne == queue # <<>> /\ Cardinality(visited) <= settings.max_pages

\* the while condition without the page budget
LoopConditionNoBudget == queue # <<>>

\* the while condition of run
LoopCondition == queue # <<>> /\ Cardinality(visited) < settings.max_pages

\* the except clause with the page counted as visited
OnRequestExceptionCounted(normalized_url, rest) ==
    /\ queue' = rest
    /\ visited' = visited \cup {normalized_url}
    /\ fetches' = fetches + 1
    /\ slept' = FALSE
    /\ result' = [result EXCEPT !.visited_pages = @ + 1,
                                !.errors = Append(@, <<normalized_url, "exc", 0>>)]
    /\ UNCHANGED <<queued, contacts_map, restricted_detected, page_contacts>>

\* self._session.get raised a RequestException: the error is recorded and
\* the loop continues, without the sleep at the end of the body
OnRequestException(normalized_url, rest) ==
    /\ queue' = rest
    /\ visited' = visited \cup {normalized_url}
    /\ fetches' = fetches + 1
    /\ slept' = FALSE
    /\ result' = [result EXCEPT !.errors = Append(@, <<normalized_url, "exc", 0>>)]
    /\ UNCHANGED <<queued, contacts_map, restricted_detected, page_contacts>>

\* one iteration of the while loop of run, with fetch outcome resp
IterateWith(resp) ==
    LET current_url == Head(queue)[1]
        depth == Head(queue)[2]
        rest == Tail(queue)
        normalized_url == _normalize_url(current_url)
    IN  IF normalized_url \in visited THEN
            /\ queue' = rest
            /\ UNCHANGED <<visited, queued, contacts_map, restricted_detected, result,
                           fetches, slept, page_contacts>>
        ELSE IF resp.kind = "exc" THEN
            OnRequestException(normalized_url, rest)
        ELSE IF resp.status_code \in RESTRICTED_STATUS THEN
            /\ queue' = rest
            /\ visited' = visited \cup {normalized_url}
            /\ fetches' = fetches + 1
            /\ slept' = FALSE
            /\ restricted_detected' = TRUE
            /\ result' = [result EXCEPT
                            !.visited_pages = @ + 1,
                            !.errors = Append(@, <<normalized_url, "acceso restringido",
                                                   resp.status_code>>)]
            /\ UNCHANGED <<queued, contacts_map, page_contacts>>
        ELSE IF ~resp.is_html THEN
            /\ queue' = rest
            /\ visited' = visited \cup {normalized_url}
            /\ fetches' = fetches + 1
            /\ slept' = FALSE
            /\ result' = [result EXCEPT !.visited_pages = @ + 1]
            /\ UNCHANGED <<queued, contacts_map, restricted_detected, page_contacts>>
        ELSE
            LET links == IF depth < settings.max_depth
                         THEN _collect_links(resp.text, settings.base_url,
                                             settings.max_links_per_page)
                         ELSE <<>>
                enq == EnqueueLinks(rest, queued, visited \cup {normalized_url}, links, depth)
            IN  /\ visited' = visited \cup {normalized_url}
                /\ fetches' = fetches + 1
                /\ slept' = TRUE
                /\ page_contacts' = _extract_contacts_from_html(resp.text, normalized_url)
                /\ contacts_map' = MergeContacts(contacts_map, page_contacts')
                /\ queue' = enq.queue
                /\ queued' = enq.queued
                /\ result' = [result EXCEPT
                                !.visited_pages = @ + 1,
                                !.explored_links = @ + Len(links)]
                /\ UNCHANGED restricted_detected

\* one iteration of the while loop of run
Iterate ==
    /\ pc = "loop"
    /\ LoopCondition
    /\ \E resp \in (IF jpc = "crawl" THEN JobFetchOutcomes ELSE FetchOutcomes) :
          IterateWith(resp)
    /\ IF _normalize_url(Head(queue)[1]) \in visited THEN UNCHANGED jobVars ELSE Progress
    /\ UNCHANGED <<settings, pc>>
    /\ UNCHANGED notCrawlVars

\* the classification with the restricted test first, whatever was found
ClassifyRestrictedFirst(contacts, restricted) ==
    IF restricted THEN "RESTRINGIDO"
    ELSE IF contacts = <<>> THEN "NO_ENCONTRADO"
    ELSE "OK"

\* the status classification of run
Classify(contacts, restricted) ==
    IF restricted /\ contacts = <<>> THEN "RESTRINGIDO"
    ELSE IF contacts = <<>> THEN "NO_ENCONTRADO"
    ELSE "OK"

\* the end of run: the loop condition is false, the result is returned
Return ==
    /\ pc = "loop"
    /\ ~LoopCondition
    /\ result' = [result EXCEPT
                    !.contacts = DictValues(contacts_map),
                    !.status = Classify(DictValues(contacts_map), restricted_detected)]
    /\ pc' = "done"
    /\ UNCHANGED <<settings, queue, visited, queued, contacts_map, restricted_detected,
                   fetches, slept, page_contacts>>
    /\ UNCHANGED notCrawlVars
    /\ UNCHANGED jobVars

\* no call of respond is running on its own
ClientIdle ==
    /\ rpc = "idle"
    /\ r_attempt = 0
    /\ r_last = "None"
    /\ r_response = [error |-> "None", status |-> "None", reason |-> FALSE,
                     text |-> [wrap |-> "bare", payload |-> "empty", items |-> <<>>]]
    /\ r_result = [exc |-> "None", content |-> <<>>]

\* no page function is applied on its own
PageIdle ==
    /\ p_html = Html(<<>>, <<>>, <<>>)
    /\ p_base_url = NoUrl
    /\ p_max_links = 1
    /\ ppc = {}
    /\ p_contacts = <<>>
    /\ p_links = <<>>

\* no enrichment is running
EnrichIdle ==
    /\ api_key = FALSE
    /\ max_contacts = 0
    /\ contacts_list = <<>>
    /\ epc = "idle"
    /\ start = 0
    /\ enriched = <<>>
    /\ enriched_obj = <<>>
    /\ notes = <<>>
    /\ invalid_count = 0
    /\ flagged_count = 0
    /\ stack = <<>>
    /\ ret = [kind |-> "none", value |-> <<>>, exc |-> "None"]
    /\ requests = 0
    /\ splits = 0

CrawlInit ==
    /\ EnrichIdle
    /\ ClientIdle
    /\ JobIdle
    /\ PageIdle
    /\ StatusIdle
    /\ PoolIdle
    /\ settings \in Settings
    /\ queue = <<<<_normalize_url(settings.base_url), 0>>>>
    /\ visited = {}
    /\ queued = {_normalize_url(settings.base_url)}
    /\ contacts_map = <<>>
    /\ restricted_detected = FALSE
    /\ result = NewCrawlResult
    /\ pc = "loop"
    /\ fetches = 0
    /\ slept = FALSE
    /\ page_contacts = <<>>

CrawlNext == Iterate \/ Return

SpecCrawl == CrawlInit /\ [][CrawlNext]_vars

\* the thread running run keeps taking steps
FairSpecCrawl == SpecCrawl /\ WF_vars(CrawlNext)

(***************************************************************************)
(* Properties of ContactScraper.run                                        *)
(***************************************************************************)
\* some fetched page answered 401, 403, 429 or 503 (one error is recorded
\* for each, with the status code)
RestrictedPageFetched ==
    \E i \in 1..Len(result.errors) : result.errors[i][3] \in RESTRICTED_STATUS

\* C1: when run returns, status is OK iff the contact list is non-empty,
\* RESTRINGIDO iff it is empty and some fetched page answered a restricted
\* status, and NO_ENCONTRADO otherwise.
C1_StatusLaw ==
    pc = "done" =>
        /\ result.status \in {"OK", "RESTRINGIDO", "NO_ENCONTRADO"}
        /\ result.status = "OK" <=> result.contacts # <<>>
        /\ result.status = "RESTRINGIDO" <=>
                (result.contacts = <<>> /\ RestrictedPageFetched)
        /\ result.status = "NO_ENCONTRADO" <=>
                (result.contacts = <<>> /\ ~RestrictedPageFetched)

\* C1 witness: run returned OK with contacts from one page although another
\* page answered a restricted status
C1_Witness ==
    /\ pc = "done"
    /\ result.contacts # <<>>
    /\ RestrictedPageFetched
    /\ result.status = "OK"

\* C2 as stated: when run returns, the queue is empty or visited_pages
\* equals max_pages.
C2_ExitOnVisitedPages ==
    pc = "done" => (queue = <<>> \/ result.visited_pages = settings.max_pages)

\* C2 amended: when run returns, the queue is empty or the number of URLs
\* fetched or attempted (the visited set, transport failures included)
\* equals max_pages; and while neither holds the loop has not returned.
C2_ExitOnAttempts ==
    /\ pc = "done" => (queue = <<>> \/ Cardinality(visited) = settings.max_pages)
    /\ (queue # <<>> /\ Cardinality(visited) < settings.max_pages) => pc = "loop"

\* C2 witness: run returned with URLs still queued, the budget used up by
\* attempts of which one failed at transport level
C2_Witness ==
    /\ pc = "done"
    /\ queue # <<>>
    /\ Cardinality(visited) = settings.max_pages
    /\ result.visited_pages < settings.max_pages

\* C3: run terminates, and it issues at most max_pages fetches, successful or
\* failing, so visited_pages never exceeds max_pages.
C3_Terminates ==
    /\ <>(pc = "done")
    /\ [](fetches <= settings.max_pages /\ result.visited_pages <= fetches)

\* C3 witness: run returned on a site with more pages than the budget, with
\* URLs left in the queue and a failed fetch among the attempts
C3_Witness ==
    /\ pc = "done"
    /\ fetches = settings.max_pages
    /\ settings.max_pages < NumUrls
    /\ queue # <<>>
    /\ result.visited_pages < fetches

\* the dedup key of the data model: (kind, normalized value)
NormalizedKey(contact) ==
    <<contact.tipo,
      IF contact.tipo = "correo" THEN Lower(contact.valor)
      ELSE _normalize_phone(contact.valor)>>

\* C4: the contact list returned by run never holds two contacts with the
\* same (kind, normalized value).
C4_NoDuplicateKeys ==
    pc = "done" =>
        \A i, j \in 1..Len(result.contacts) :
            i # j => NormalizedKey(result.contacts[i]) # NormalizedKey(result.contacts[j])

\* the step is the iteration of the loop of run that fetches the head of the
\* queue and gets resp
Fetched(resp) ==
    /\ pc = "loop"
    /\ LoopCondition
    /\ _normalize_url(Head(queue)[1]) \notin visited
    /\ IterateWith(resp)

\* resp is a text/html response with a status that is not restricted
IsHtmlPage(resp) ==
    resp.kind = "response" /\ resp.status_code \notin {401, 403, 429, 503} /\ resp.is_html

\* the eligible links of a page, each normalized URL once, before the sort
\* and the truncation
EligibleLinks(html) == Candidates(html.anchors, {}, settings.base_url)

\* C21: an iteration that fetches an HTML page at a depth below max_depth
\* adds to explored_links the number of eligible links of the page, counted
\* before the truncation to max_links_per_page.
C21_ExploredLinksStep ==
    \A resp \in FetchOutcomes :
        (IsHtmlPage(resp) /\ Fetched(resp) /\ Head(queue)[2] < settings.max_depth) =>
            result'.explored_links = result.explored_links + Len(EligibleLinks(resp.text))

C21_ExploredLinksCountsCandidates == [][C21_ExploredLinksStep]_vars

\* C22: a fetch that is not the first of the crawl is issued only after the
\* iteration of the fetch before it has slept the politeness delay, however
\* that iteration ended.
C22_DelayStep == (fetches' = fetches + 1 /\ fetches >= 1) => slept

C22_DelayBetweenFetches == [][C22_DelayStep]_vars

\* the entries an iteration appended to the queue
Enqueued == SubSeq(queue', Len(queue), Len(queue'))

\* C23, the state part: every entry of the queue has a depth from 0 to
\* max_depth, and with max_depth = 0 nothing but the seed is ever fetched.
C23_DepthInRange ==
    /\ \A i \in 1..Len(queue) : 0 <= queue[i][2] /\ queue[i][2] <= settings.max_depth
    /\ settings.max_depth = 0 => visited \subseteq {_normalize_url(settings.base_url)}

\* C23, the step part: an iteration takes the head of the queue and appends
\* at most max_links_per_page entries, each one deeper than the head, and
\* none unless the head is above max_depth; the head it fetches is not
\* deeper than max_depth.
C23_EnqueueStep ==
    (pc = "loop" /\ queue' # queue) =>
        /\ Len(queue') >= Len(queue) - 1
        /\ SubSeq(queue', 1, Len(queue) - 1) = Tail(queue)
        /\ Len(Enqueued) <= settings.max_links_per_page
        /\ \A i \in 1..Len(Enqueued) :
                /\ Enqueued[i][2] = Head(queue)[2] + 1
                /\ Head(queue)[2] < settings.max_depth
        /\ Head(queue)[2] <= settings.max_depth

\* C23: frontier depths stay within 0..max_depth, links are enqueued one
\* level deeper and only from pages above max_depth, at most
\* max_links_per_page per page.
C23_DepthBound == []C23_DepthInRange /\ [][C23_EnqueueStep]_vars

\* C23 witness: a page at depth max_depth >= 1 was fetched with other pages
\* of the site never enqueued, and the crawl ended with an empty queue
C23_Witness ==
    /\ pc = "done"
    /\ settings.max_depth = 1
    /\ settings.max_pages = NumUrls
    /\ settings.max_links_per_page = 1
    /\ queue = <<>>
    /\ Cardinality(visited) = 2
    /\ result.visited_pages = 2
    /\ result.explored_links = 1

\* the error an iteration appended names this URL with this text and status
ErrorAppended(url, what, code) ==
    result'.errors = Append(result.errors, <<url, what, code>>)

\* C24, the step part: the iteration that fetches a page answering 401, 403,
\* 429 or 503 sets the restricted flag, appends one error, counts the page,
\* and leaves the contact store, the queued set and explored_links as they
\* were, enqueues nothing, and the loop goes on.
C24_RestrictedStep ==
    \A resp \in FetchOutcomes :
        (/\ resp.kind = "response"
         /\ resp.status_code \in {401, 403, 429, 503}
         /\ Fetched(resp)) =>
            /\ restricted_detected'
            /\ ErrorAppended(_normalize_url(Head(queue)[1]), "acceso restringido",
                             resp.status_code)
            /\ contacts_map' = contacts_map
            /\ queue' = Tail(queue)
            /\ queued' = queued
            /\ result'.explored_links = result.explored_links
            /\ result'.visited_pages = result.visited_pages + 1
            /\ pc' = "loop"

\* C24, the state part: a crawl that fetched the seed only, answered with a
\* restricted status, returns no contact and status RESTRINGIDO.
C24_SeedRestricted ==
    (pc = "done" /\ fetches = 1 /\ RestrictedPageFetched) =>
        /\ result.contacts = <<>>
        /\ result.status = "RESTRINGIDO"

\* C24: a restricted page is handled without extraction and the crawl
\* continues; a restricted seed alone gives RESTRINGIDO without contacts.
C24_RestrictedNoExtraction == []C24_SeedRestricted /\ [][C24_RestrictedStep]_vars

\* C24 witness: the second page of three answered a restricted status, the
\* third was fetched after it, and the crawl returned OK with contacts
C24_Witness ==
    /\ pc = "done"
    /\ Len(result.errors) = 1
    /\ result.errors[1][1] = Url(2, "")
    /\ result.errors[1][3] \in {401, 403, 429, 503}
    /\ visited = {Url(1, ""), Url(2, ""), Url(3, "")}
    /\ result.visited_pages = 3
    /\ result.status = "OK"

\* C25, the step part: the iteration whose fetch raises a transport failure
\* appends one error naming the URL and adds the URL to the visited set; the
\* contact store, the rest of the queue (the URL was taken from it before
\* the fetch), the queued set, visited_pages, explored_links and the
\* restricted flag stay as they were, and the loop goes on.
C25_TransportFailureStep ==
    \A resp \in FetchOutcomes :
        (resp.kind = "exc" /\ Fetched(resp)) =>
            /\ ErrorAppended(_normalize_url(Head(queue)[1]), "exc", 0)
            /\ visited' = visited \cup {_normalize_url(Head(queue)[1])}
            /\ contacts_map' = contacts_map
            /\ queue' = Tail(queue)
            /\ queued' = queued
            /\ result'.visited_pages = result.visited_pages
            /\ result'.explored_links = result.explored_links
            /\ restricted_detected' = restricted_detected
            /\ pc' = "loop"

C25_TransportFailureFrame == [][C25_TransportFailureStep]_vars

\* C25 witness: the fetch of the second page of three failed, the third was
\* fetched after it, and the crawl returned OK with two pages counted
C25_Witness ==
    /\ pc = "done"
    /\ result.errors = <<<<Url(2, ""), "exc", 0>>>>
    /\ visited = {Url(1, ""), Url(2, ""), Url(3, "")}
    /\ result.visited_pages = 2
    /\ ~restricted_detected
    /\ result.status = "OK"

\* the store holds each of its keys once, under the key of the contact
C29_KeysOnce ==
    \A i, j \in 1..Len(contacts_map) :
        /\ contacts_map[i][1] = <<contacts_map[i][2].tipo, contacts_map[i][2].valor>>
        /\ contacts_map[i][1] = contacts_map[j][1] => i = j

\* run returns the contacts of the store
C29_ReturnsStore == pc = "done" => result.contacts = DictValues(contacts_map)

\* no step changes or removes an entry of the store; a step that fetches an
\* HTML page leaves every key the page produces in the store, and the keys
\* that are new hold the contact of this page; no other step adds an entry
C29_StoreStep ==
    /\ Len(contacts_map') >= Len(contacts_map)
    /\ \A i \in 1..Len(contacts_map) : contacts_map'[i] = contacts_map[i]
    /\ (fetches' = fetches + 1 /\ slept') =>
          LET page_url == _normalize_url(Head(queue)[1])
          IN  /\ \A k \in 1..Len(page_contacts') :
                    /\ page_contacts'[k].url = page_url
                    /\ DictHas(contacts_map',
                               <<page_contacts'[k].tipo, page_contacts'[k].valor>>)
              /\ \A i \in (Len(contacts_map) + 1)..Len(contacts_map') :
                    \E k \in 1..Len(page_contacts') :
                        contacts_map'[i][2] = page_contacts'[k]
    /\ ~(fetches' = fetches + 1 /\ slept') => contacts_map' = contacts_map

\* C29: the store of a crawl is first-seen-wins: an entry, once stored, is
\* never changed or replaced by a later page, the store only grows, and the
\* contact returned for a key is the one of the first page fetched that
\* produced the key.
C29_FirstSeenWins ==
    [](C29_KeysOnce /\ C29_ReturnsStore) /\ [][C29_StoreStep]_vars

\* C29 witness: the seed gave the address, the second page gave the same
\* address again and a telephone number; the address returned is the seed's
C29_Witness ==
    /\ pc = "done"
    /\ result.visited_pages = 2
    /\ Len(result.contacts) = 2
    /\ result.contacts[1].tipo = "correo"
    /\ result.contacts[1].valor = EmailUpper
    /\ result.contacts[1].url = Url(1, "")
    /\ result.contacts[2].tipo = "telefono"
    /\ result.contacts[2].url = Url(2, "")

\* the URLs waiting in the queue
QueueUrls == {queue[i][1] : i \in 1..Len(queue)}

\* C30: in every state of a crawl no URL is twice in the queue, every URL of
\* the queue and every visited URL is in the queued set, no URL of the queue
\* is visited; so every fetch is of a URL not fetched before.
C30_FrontierInvariant ==
    /\ \A i, j \in 1..Len(queue) : queue[i][1] = queue[j][1] => i = j
    /\ QueueUrls \subseteq queued
    /\ visited \subseteq queued
    /\ QueueUrls \cap visited = {}
    /\ \A u \in QueueUrls \cup visited : u = _normalize_url(u)
    /\ fetches = Cardinality(visited)

\* C30 witness: two pages were fetched and two links were returned by
\* _collect_links, one of them to a URL that was queued already: only the
\* seed and one more URL were ever queued
C30_Witness ==
    /\ pc = "loop"
    /\ fetches = 2
    /\ result.explored_links = 2
    /\ queued = {Url(1, ""), Url(2, "")}
    /\ visited = queued
    /\ queue = <<>>

(***************************************************************************)
(* ai_client.py: the completion client                                     *)
(*                                                                         *)
(* A service response is an exception raised by responses.create, or a     *)
(* body with a status, an incompleteness reason and the combined text.     *)
(* The text is its wrapping (bare, inside a ``` fence, or after a line of  *)
(* prose) and its payload: nothing, text that is not JSON, a JSON object   *)
(* without a contacts list, or a JSON object with a contacts list.         *)
(***************************************************************************)
RetryAttempts == 3

Text(wrap, payload, items) == [wrap |-> wrap, payload |-> payload, items |-> items]

\* not combined
TextEmpty(text) == text.payload = "empty"

\* combined.strip().endswith("}")
EndsWithBrace(text) ==
    text.payload \in {"contacts", "no_contacts"} /\ text.wrap \in {"bare", "prose"}

\* the closure call of respond without the test of incomplete_details
callIgnoringReason(response) ==
    LET combined == response.text
        raise(e) == [exc |-> e, content |-> combined]
    IN  IF response.error # "None" THEN raise(response.error)
        ELSE IF response.status \notin {"None", "completed"}
                /\ (TextEmpty(combined) \/ ~EndsWithBrace(combined))
        THEN raise("RetryableError")
        ELSE IF TextEmpty(combined) THEN raise("RetryableError")
        ELSE raise("None")

\* the closure call of respond, after the text was extracted: the exception
\* it raises ("None" when it returns) and the text it returns.  The status
\* "None" is a response without a status.
call(response) ==
    LET combined == response.text
        raise(e) == [exc |-> e, content |-> combined]
    IN  IF response.error # "None" THEN raise(response.error)
        ELSE IF response.status \notin {"None", "completed"}
                /\ (TextEmpty(combined) \/ ~EndsWithBrace(combined))
        THEN raise("RetryableError")
        ELSE IF response.reason /\ (TextEmpty(combined) \/ ~EndsWithBrace(combined))
        THEN raise("RetryableError")
        ELSE IF TextEmpty(combined) THEN raise("RetryableError")
        ELSE raise("None")

\* exceptions of the client library; the message of a RateLimitError or an
\* APITimeoutError holds a token of the transient vocabulary of _retry
ClientErrors == {"RateLimitError", "AuthenticationError"}

\* any(token in msg for token in ("rate", "timeout", "overloaded", ...))
HasTransientToken(exc) == exc \in {"RateLimitError", "APITimeoutError"}

\* the except clause of _retry retrying after every exception
_retry_continuesAlways(exc) == exc # "None"

\* the except clause of _retry: whether the attempt is retried
_retry_continues(exc) == exc = "RetryableError" \/ HasTransientToken(exc)

(***************************************************************************)
(* enrichment.py: parsing                                                  *)
(***************************************************************************)
\* _sanitize_response_text: the ``` fence removed
_sanitize_response_text(text) ==
    IF text.wrap = "fenced" THEN [text EXCEPT !.wrap = "bare"] ELSE text

\* json.loads(candidate): whether it parses, and to what
JsonLoads(text) ==
    IF text.wrap = "bare" /\ text.payload \in {"contacts", "no_contacts"}
    THEN [ok |-> TRUE, payload |-> text.payload, items |-> text.items]
    ELSE [ok |-> FALSE, payload |-> "", items |-> <<>>]

\* the candidates of _parse_contacts_response: cleaned, then the brace-delimited
\* substring when there is one and it differs from cleaned
ParseCandidates(cleaned) ==
    <<cleaned>> \o
    (IF cleaned.wrap = "prose" /\ cleaned.payload \in {"contacts", "no_contacts"}
     THEN <<[cleaned EXCEPT !.wrap = "bare"]>> ELSE <<>>)

RECURSIVE ParseFrom(_, _)
\* the loop over candidates of _parse_contacts_response
ParseFrom(candidates, expected) ==
    IF candidates = <<>> THEN [exc |-> "ValueError", value |-> <<>>]
    ELSE LET parsed == JsonLoads(Head(candidates))
         IN  IF ~parsed.ok THEN ParseFrom(Tail(candidates), expected)
             ELSE IF parsed.payload = "contacts"
             THEN (IF Len(parsed.items) # expected
                   THEN [exc |-> "ValueError", value |-> <<>>]
                   ELSE [exc |-> "None", value |-> parsed.items])
             ELSE ParseFrom(Tail(candidates), expected)

\* _parse_contacts_response
_parse_contacts_response(text, expected) ==
    ParseFrom(ParseCandidates(_sanitize_response_text(text)), expected)

(***************************************************************************)
(* The completion service                                                  *)
(***************************************************************************)
Letter(i) == <<"a", "b", "c", "o", "x">>[i]

\* the contacts handed to enrich_contacts, as the crawl produces them
InputContact(i) ==
    Contact("correo", <<Letter(i), "@", "x", ".", "c", "o">>, "text", SeedUrl)

\* result items the service writes about contact c of the prompt, numbered i
\* there: a well-formed valid item whose description names the contact, a
\* well-formed invalid one with a reason, and one that is no object.  The
\* field about is not part of the answer: it records the contact at whose
\* position of the contacts list the item stands.
GoodItem(i, c) ==
    [shape |-> "dict", indice |-> i, valido |-> TRUE,
     descripcion |-> <<" ", "r", c.valor[1]>>, motivo |-> <<>>, about |-> c.valor]

InvalidItem(i, c) ==
    [shape |-> "dict", indice |-> i, valido |-> FALSE,
     descripcion |-> <<>>, motivo |-> <<" ", "m", "a", "l">>, about |-> c.valor]

ScalarItem(i, c) ==
    [shape |-> "scalar", indice |-> i, valido |-> FALSE,
     descripcion |-> <<>>, motivo |-> <<>>, about |-> c.valor]

AllGood(chunk) == [i \in 1..Len(chunk) |-> GoodItem(i, chunk[i])]

\* the good items of chunk written in the reverse order of the prompt, each
\* with the indice of its contact
Reversed(chunk) ==
    LET n == Len(chunk)
    IN  [i \in 1..n |->
            [GoodItem(n + 1 - i, chunk[n + 1 - i]) EXCEPT !.about = chunk[i].valor]]

\* contacts lists the service answers a prompt about chunk with: one item
\* per contact with at most one that is not a good item, the good items in
\* reverse order, one item too few, one item too many
ItemLists(chunk) ==
    {AllGood(chunk), Reversed(chunk)}
    \cup {[AllGood(chunk) EXCEPT ![i] = InvalidItem(i, chunk[i])] : i \in 1..Len(chunk)}
    \cup {[AllGood(chunk) EXCEPT ![i] = ScalarItem(i, chunk[i])] : i \in 1..Len(chunk)}
    \cup {SubSeq(AllGood(chunk), 1, Len(chunk) - 1)}
    \cup {Append(AllGood(chunk), GoodItem(Len(chunk) + 1, chunk[1]))}

Texts(chunk) ==
    {Text("bare", "empty", <<>>), Text("bare", "garbage", <<>>),
     Text("bare", "no_contacts", <<>>)}
    \cup {Text(w, "contacts", l) : w \in {"bare", "fenced", "prose"}, l \in ItemLists(chunk)}

\* what one responses.create request about chunk may come back with; a
\* response with a reason and a completed or absent status is treated by
\* call as one with the status incomplete, and is left to ClientResponses
ServiceResponses(chunk) ==
    {[error |-> e, status |-> "completed", reason |-> FALSE,
      text |-> Text("bare", "empty", <<>>)] : e \in ClientErrors}
    \cup {[error |-> "None", status |-> st, reason |-> (st = "incomplete"), text |-> t] :
            st \in {"completed", "incomplete"}, t \in Texts(chunk)}

\* what a request about chunk may come back with during a job: an error of
\* the client library, an answer for every contact, an answer whose first
\* item is no object
JobServiceResponses(chunk) ==
    {[error |-> "AuthenticationError", status |-> "completed", reason |-> FALSE,
      text |-> Text("bare", "empty", <<>>)]}
    \cup {[error |-> "None", status |-> "completed", reason |-> FALSE,
           text |-> Text("bare", "contacts", l)] :
            l \in {AllGood(chunk), [AllGood(chunk) EXCEPT ![1] = ScalarItem(1, chunk[1])]}}

(***************************************************************************)
(* enrichment.py: _query_contacts_with_retry                               *)
(*                                                                         *)
(* The recursion is a stack of frames.  A frame is at "try" while in the   *)
(* loop over the two prompts (idx 0 the primary prompt, idx 1 the strict   *)
(* one; attempt and last are the locals of _retry inside respond), at      *)
(* "after_loop"                                                            *)
(* once the loop is left without a return, at "left" and "right" while the *)
(* recursive call on that half runs; the locals idx, attempt and last_exc  *)
(* are not read after the split and are cleared there.  Usage metadata is  *)
(* not modelled.                                                           *)
(***************************************************************************)
NumPrompts == 2

NewFrame(chunk) ==
    [chunk |-> chunk, idx |-> 0, attempt |-> 0, last |-> "None", last_exc |-> "None",
     phase |-> "try", left_results |-> <<>>]

NoRet == [kind |-> "none", value |-> <<>>, exc |-> "None"]

RetValue(v) == [kind |-> "value", value |-> v, exc |-> "None"]

RetExc(e) == [kind |-> "exc", value |-> <<>>, exc |-> e]

Top == stack[Len(stack)]

Pop == SubSeq(stack, 1, Len(stack) - 1)

ReplaceTop(f) == [stack EXCEPT ![Len(stack)] = f]

\* the except clauses of the loop over prompts going on to the next prompt
\* after every exception
OnPromptErrorNextPrompt(frame, exc) ==
    IF frame.idx + 1 < NumPrompts
    THEN [frame EXCEPT !.last_exc = exc, !.idx = @ + 1, !.attempt = 0, !.last = "None"]
    ELSE [frame EXCEPT !.last_exc = exc, !.phase = "after_loop"]

\* the except clauses of the loop over prompts: a RetryableError goes on to
\* the next prompt, any other exception leaves the loop
OnPromptError(frame, exc) ==
    IF exc = "RetryableError"
    THEN (IF frame.idx + 1 < NumPrompts
          THEN [frame EXCEPT !.last_exc = exc, !.idx = @ + 1, !.attempt = 0,
                             !.last = "None"]
          ELSE [frame EXCEPT !.last_exc = exc, !.phase = "after_loop"])
    ELSE [frame EXCEPT !.last_exc = exc, !.phase = "after_loop"]

\* one request of respond for the prompt of the top frame, and what _retry
\* and the try block of the loop over prompts do with its outcome
RespondWith(response) ==
    \E frame \in {Top}, r \in {call(response)} :
        IF r.exc = "None" THEN
            \E parsed \in {_parse_contacts_response(r.content, Len(frame.chunk))} :
                IF parsed.exc = "None"
                THEN /\ stack' = Pop
                     /\ ret' = RetValue(parsed.value)
                ELSE /\ stack' = ReplaceTop(OnPromptError(frame, parsed.exc))
                     /\ ret' = ret
        ELSE IF _retry_continues(r.exc) /\ frame.attempt + 1 < RetryAttempts THEN
            /\ stack' = ReplaceTop([frame EXCEPT !.attempt = @ + 1, !.last = r.exc])
            /\ ret' = ret
        ELSE
            /\ stack' = ReplaceTop(OnPromptError(frame, r.exc))
            /\ ret' = ret

\* _query_contacts_with_retry up to and including one service request
Respond ==
    /\ epc = "query"
    /\ stack # <<>>
    /\ ret.kind = "none"
    /\ Top.phase = "try"
    /\ IF Top.chunk = <<>>
       THEN /\ stack' = Pop
            /\ ret' = RetValue(<<>>)
            /\ requests' = requests
       ELSE /\ \E response \in (IF jpc = "enrich" THEN JobServiceResponses(Top.chunk)
                                ELSE ServiceResponses(Top.chunk)) :
                  RespondWith(response)
            /\ requests' = requests + 1
    /\ UNCHANGED <<api_key, max_contacts, contacts_list, epc, start, enriched,
                   enriched_obj, notes,
                   invalid_count, flagged_count, splits>>
    /\ UNCHANGED notEnrichVars

\* mid = len(chunk) // 2
Mid(chunk) == Len(chunk) \div 2

\* left = chunk[:mid]
LeftHalf(chunk) == SubSeq(chunk, 1, Mid(chunk))

\* right = chunk[mid:]
RightHalf(chunk) == SubSeq(chunk, Mid(chunk) + 1, Len(chunk))

\* the split test with a batch of one split too
ShouldBisectAnySize(frame) == frame.last_exc # "None" /\ Len(frame.chunk) >= 1

\* if last_exc and len(chunk) > 1
ShouldBisect(frame) == frame.last_exc # "None" /\ Len(frame.chunk) > 1

\* the end of _query_contacts_with_retry after the loop over prompts: bisect
\* and call on the left half, or raise
BisectOrFail ==
    /\ epc = "query"
    /\ stack # <<>>
    /\ ret.kind = "none"
    /\ Top.phase = "after_loop"
    /\ IF ShouldBisect(Top)
       THEN /\ stack' = Append(ReplaceTop([NewFrame(Top.chunk) EXCEPT !.phase = "left"]),
                               NewFrame(LeftHalf(Top.chunk)))
            /\ ret' = ret
            /\ splits' = splits + 1
       ELSE /\ stack' = Pop
            /\ ret' = RetExc(IF Top.last_exc # "None" THEN Top.last_exc ELSE "RuntimeError")
            /\ splits' = splits
    /\ UNCHANGED <<api_key, max_contacts, contacts_list, epc, start, enriched,
                   enriched_obj, notes,
                   invalid_count, flagged_count, requests>>
    /\ UNCHANGED notEnrichVars

\* left_results + right_results, in the other order
CombineSwapped(left_results, right_results) == right_results \o left_results

\* left_results + right_results
Combine(left_results, right_results) == left_results \o right_results

\* a recursive call of _query_contacts_with_retry ended: the caller goes on
\* with the right half, returns the combined results, or lets the exception
\* pass
Resume ==
    /\ epc = "query"
    /\ stack # <<>>
    /\ ret.kind # "none"
    /\ IF ret.kind = "exc"
       THEN /\ stack' = Pop
            /\ ret' = ret
       ELSE IF Top.phase = "left"
       THEN /\ stack' = Append(ReplaceTop([Top EXCEPT !.phase = "right",
                                                      !.left_results = ret.value]),
                               NewFrame(RightHalf(Top.chunk)))
            /\ ret' = NoRet
       ELSE /\ stack' = Pop
            /\ ret' = RetValue(Combine(Top.left_results, ret.value))
    /\ UNCHANGED <<api_key, max_contacts, contacts_list, epc, start, enriched,
                   enriched_obj, notes,
                   invalid_count, flagged_count, requests, splits>>
    /\ UNCHANGED notEnrichVars

(***************************************************************************)
(* enrichment.py: enrich_contacts                                          *)
(***************************************************************************)
ConfigNote == "OPENAI_API_KEY no esta configurada"
FailureNote == "La IA no pudo validar algunos contactos"

\* step = len(contacts_list) if MAX_CONTACTS_PER_REQUEST <= 0 else max(1, ...)
Step == IF max_contacts <= 0 THEN Len(contacts_list) ELSE Max(1, max_contacts)

\* contacts_list[start : start + step]
ChunkAt(st) == SubSeq(contacts_list, st + 1, Min(st + Step, Len(contacts_list)))

\* whether a returned contact was enriched: it carries the validado flag
IsEnriched(contact) == "validado" \in DOMAIN contact

\* the loop body leaving a contact the service calls invalid as it was
EnrichOneOnlyValid(contact, extra) ==
    IF extra.valido
    THEN contact @@ ("validado" :> TRUE)
                 @@ ("descripcion_enriquecida" :> Strip(extra.descripcion))
    ELSE contact

\* the body of the loop over zip(chunk, chunk_results) for a result item that
\* is an object
EnrichOne(contact, extra) ==
    LET c1 == contact @@ ("validado" :> extra.valido)
        descripcion_enriquecida == Strip(extra.descripcion)
        c2 == IF descripcion_enriquecida # <<>>
              THEN c1 @@ ("descripcion_enriquecida" :> descripcion_enriquecida)
              ELSE c1
        motivo == Strip(extra.motivo)
    IN  IF motivo # <<>> THEN c2 @@ ("flags" :> <<motivo>>) ELSE c2

\* the object a dict created inside enrich_contacts is
NewObject == 0

\* dict(contact) handing back its argument instead of a copy
dictSameObject(obj) == obj

\* dict(contact): a new dict with the items of contact, whichever object
\* contact is
dict(obj) == NewObject

\* the items of the argument after an item assignment through a reference:
\* a write to a new dict leaves them alone, a write to the i-th item of the
\* argument is seen there
WriteThrough(items, obj, written) ==
    IF obj = NewObject THEN items ELSE [items EXCEPT ![obj] = written]

RECURSIVE ApplyResults(_, _, _)
\* the loop over zip(chunk, chunk_results); extra.get raises AttributeError
\* on a result item that is no object, and the exception leaves enrich_contacts
ApplyResults(acc, chunk, chunk_results) ==
    IF chunk = <<>> \/ chunk_results = <<>> \/ acc.raised THEN acc
    ELSE LET extra == Head(chunk_results)
             enriched_contact == dict(acc.position)
         IN  IF extra.shape # "dict"
             THEN [acc EXCEPT !.raised = TRUE]
             ELSE ApplyResults(
                    [acc EXCEPT
                        !.enriched = Append(@, EnrichOne(Head(chunk), extra)),
                        !.enriched_obj = Append(@, enriched_contact),
                        !.items = WriteThrough(@, enriched_contact,
                                               EnrichOne(Head(chunk), extra)),
                        !.position = @ + 1,
                        !.invalid_count = @ + (IF extra.valido THEN 0 ELSE 1),
                        !.flagged_count = @ + (IF Strip(extra.motivo) # <<>> THEN 1 ELSE 0)],
                    Tail(chunk), Tail(chunk_results))

\* the pre-flight of enrich_contacts without the credential test
PreflightNoKeyCheck(list, key) == IF list = <<>> THEN "empty" ELSE "go"

\* the pre-flight of enrich_contacts: the empty input and the missing credential
Preflight(list, key) ==
    IF list = <<>> THEN "empty" ELSE IF ~key THEN "no_key" ELSE "go"

\* enrich_contacts is called: the fast paths, or the start of the chunk loop
EnrichCall ==
    /\ epc = "call"
    /\ LET path == Preflight(contacts_list, api_key)
       IN  IF path = "empty" THEN
               /\ epc' = "returned"
               /\ UNCHANGED <<enriched, enriched_obj, notes>>
           ELSE IF path = "no_key" THEN
               /\ epc' = "returned"
               /\ enriched' = contacts_list
               /\ enriched_obj' = [i \in 1..Len(contacts_list) |-> dict(i)]
               /\ notes' = <<ConfigNote>>
           ELSE
               /\ epc' = "chunks"
               /\ UNCHANGED <<enriched, enriched_obj, notes>>
    /\ UNCHANGED <<api_key, max_contacts, contacts_list, start, invalid_count,
                   flagged_count, stack, ret, requests, splits>>
    /\ UNCHANGED notEnrichVars

\* the final notes of enrich_contacts
FinalNotes ==
    (IF invalid_count # 0 THEN <<<<"no validos", invalid_count>>>> ELSE <<>>)
    \o (IF flagged_count # 0 /\ flagged_count # invalid_count
        THEN <<<<"observaciones", flagged_count>>>> ELSE <<>>)

\* the head of the loop over chunks: the next chunk is queried, or the loop
\* is over and enrich_contacts returns
NextChunk ==
    /\ epc = "chunks"
    /\ IF start < Len(contacts_list)
       THEN /\ stack' = <<NewFrame(ChunkAt(start))>>
            /\ epc' = "query"
            /\ notes' = notes
       ELSE /\ notes' = notes \o FinalNotes
            /\ epc' = "returned"
            /\ stack' = stack
    /\ UNCHANGED <<api_key, max_contacts, contacts_list, start, enriched, enriched_obj,
                   invalid_count,
                   flagged_count, ret, requests, splits>>
    /\ UNCHANGED notEnrichVars

\* _query_contacts_with_retry(chunk) returned or raised into enrich_contacts
ChunkDone ==
    /\ epc = "query"
    /\ stack = <<>>
    /\ ret.kind # "none"
    /\ IF ret.kind = "exc" THEN
           /\ notes' = Append(notes, FailureNote)
           /\ enriched' = enriched \o ChunkAt(start)
           /\ enriched_obj' = enriched_obj
                               \o [k \in 1..Len(ChunkAt(start)) |-> dict(start + k)]
           /\ epc' = "chunks"
           /\ UNCHANGED <<invalid_count, flagged_count, contacts_list>>
       ELSE
           \E acc \in {ApplyResults([enriched |-> enriched, enriched_obj |-> enriched_obj,
                                    items |-> contacts_list, position |-> start + 1,
                                    invalid_count |-> invalid_count,
                                    flagged_count |-> flagged_count, raised |-> FALSE],
                                   ChunkAt(start), ret.value)} :
               /\ enriched' = acc.enriched
               /\ enriched_obj' = acc.enriched_obj
               /\ contacts_list' = acc.items
               /\ invalid_count' = acc.invalid_count
               /\ flagged_count' = acc.flagged_count
               /\ epc' = IF acc.raised THEN "raised" ELSE "chunks"
               /\ notes' = notes
    /\ start' = start + Step
    /\ ret' = NoRet
    /\ UNCHANGED <<api_key, max_contacts, stack, requests, splits>>
    /\ UNCHANGED notEnrichVars

\* no crawl is running
CrawlIdle ==
    /\ settings = [base_url |-> SeedUrl, max_pages |-> 1, max_depth |-> 0,
                   max_links_per_page |-> 1]
    /\ queue = <<>>
    /\ visited = {}
    /\ queued = {}
    /\ contacts_map = <<>>
    /\ restricted_detected = FALSE
    /\ result = NewCrawlResult
    /\ pc = "idle"
    /\ fetches = 0
    /\ slept = FALSE
    /\ page_contacts = <<>>

EnrichInit ==
    /\ CrawlIdle
    /\ ClientIdle
    /\ JobIdle
    /\ PageIdle
    /\ StatusIdle
    /\ PoolIdle
    /\ api_key \in BOOLEAN
    /\ max_contacts \in 0..MaxContacts
    /\ \E n \in 0..MaxContacts : contacts_list = [i \in 1..n |-> InputContact(i)]
    /\ epc = "call"
    /\ start = 0
    /\ enriched = <<>>
    /\ enriched_obj = <<>>
    /\ notes = <<>>
    /\ invalid_count = 0
    /\ flagged_count = 0
    /\ stack = <<>>
    /\ ret = NoRet
    /\ requests = 0
    /\ splits = 0

EnrichNext == EnrichCall \/ NextChunk \/ Respond \/ BisectOrFail \/ Resume \/ ChunkDone

SpecEnrich == EnrichInit /\ [][EnrichNext]_vars

\* the thread running enrich_contacts keeps taking steps
FairSpecEnrich == SpecEnrich /\ WF_vars(EnrichNext)

(***************************************************************************)
(* ai_client.py: respond on its own                                        *)
(*                                                                         *)
(* One call of respond: the loop of _retry around call, one request per    *)
(* step, the response of each request drawn from every status, reason and  *)
(* text.                                                                   *)
(***************************************************************************)
\* the status of a response: absent, completed, or not completed
ResponseStatuses == {"None", "completed", "incomplete"}

\* what one responses.create request about chunk may come back with
ClientResponses(chunk) ==
    {[error |-> e, status |-> "completed", reason |-> FALSE,
      text |-> Text("bare", "empty", <<>>)] : e \in ClientErrors}
    \cup {[error |-> "None", status |-> st, reason |-> rs, text |-> t] :
            st \in ResponseStatuses, rs \in BOOLEAN, t \in Texts(chunk)}

\* the responses to the prompts respond is called with
RespondResponses ==
    UNION {ClientResponses([i \in 1..n |-> InputContact(i)]) : n \in 1..MaxContacts}

\* one iteration of the loop of _retry: call issues a request and returns, or
\* raises and the attempt is retried, or the exception leaves respond; after
\* the last attempt the loop ends and last is raised
RetryAttempt ==
    /\ rpc = "retry"
    /\ \E response \in RespondResponses :
          LET r == call(response)
          IN  /\ r_response' = response
              /\ IF r.exc = "None" THEN
                     /\ rpc' = "returned"
                     /\ r_result' = r
                     /\ UNCHANGED <<r_attempt, r_last>>
                 ELSE IF _retry_continues(r.exc) THEN
                     /\ r_last' = r.exc
                     /\ r_attempt' = r_attempt + 1
                     /\ IF r_attempt + 1 < RetryAttempts
                        THEN UNCHANGED <<rpc, r_result>>
                        ELSE /\ rpc' = "raised"
                             /\ r_result' = [exc |-> r.exc, content |-> <<>>]
                 ELSE
                     /\ rpc' = "raised"
                     /\ r_result' = [exc |-> r.exc, content |-> <<>>]
                     /\ UNCHANGED <<r_attempt, r_last>>
    /\ UNCHANGED notClientVars

\* respond is called
RespondInit ==
    /\ CrawlIdle
    /\ EnrichIdle
    /\ JobIdle
    /\ PageIdle
    /\ StatusIdle
    /\ PoolIdle
    /\ rpc = "retry"
    /\ r_attempt = 0
    /\ r_last = "None"
    /\ r_response = [error |-> "None", status |-> "None", reason |-> FALSE,
                     text |-> Text("bare", "empty", <<>>)]
    /\ r_result = [exc |-> "None", content |-> <<>>]

RespondNext == RetryAttempt

SpecRespond == RespondInit /\ [][RespondNext]_vars

(***************************************************************************)
(* scraper.py: the two page functions on their own                         *)
(*                                                                         *)
(* _extract_contacts_from_html and _collect_links applied to one page,     *)
(* drawn from anchors to hosts in and out of the seed's domain, with and   *)
(* without a skipped extension, and from addresses and numbers at the      *)
(* limits of what is accepted.                                             *)
(***************************************************************************)
Phone6 == <<"1", "2", "3", "4", "5", "6">>
Phone7 == <<"1", "2", "3", "4", "5", "6", "7">>
Phone8 == <<"1", "2", "3", "4", "5", "6", "7", "8">>
PhonePlus8 == <<"+", "1", "2", "3", "4", "5", "6", "7", "8">>
PhoneSpacePlus7 == <<" ", "+", "1", "2", "3", "4", "5", "6", "7">>
Phone15 == <<"1", "2", "3", "4", "5", "6", "7", "8", "9", "0", "1", "2", "3", "4", "5">>
Phone16 == <<"1", "2", "3", "4", "5", "6", "7", "8", "9", "0", "1", "2", "3", "4", "5", "6">>

\* the netlocs links of a page point to: the seed's, with www., a subdomain,
\* with a port, another domain whose name ends with the seed's, another domain
PageNetlocs ==
    {SeedNetloc,
     <<"w", "w", "w", ".", "x", ".", "c", "o">>,
     <<"a", ".", "x", ".", "c", "o">>,
     <<"x", ".", "c", "o", ":", "8">>,
     <<"a", "x", ".", "c", "o">>,
     <<"b", ".", "c", "o">>}

\* the anchors of a page
PageAnchors ==
    {LinkAnchor(UrlAt("https", n, 2, <<>>, ""), 0) : n \in PageNetlocs}
    \cup {LinkAnchor(UrlAt("ftp", SeedNetloc, 2, <<>>, ""), 0),
          LinkAnchor(UrlAt("https", SeedNetloc, 3, <<".", "c", "s", "s">>, ""), 0),
          LinkAnchor(UrlAt("http", SeedNetloc, 3, <<".", "C", "S", "S">>, ""), 0),
          MailtoAnchor(EmailUpper), MailtoAnchor(EmailLower),
          TelAnchor(PhonePlus), TelAnchor(Phone6), TelAnchor(PhoneSpacePlus7),
          TelAnchor(Phone16)}

\* the link anchors of a navigation page: two links of the lowest score, a
\* link of a higher score, and that link again with a fragment
RankedAnchors ==
    {LinkAnchor(Url(2, ""), 0),
     LinkAnchor(UrlAt("https", <<"w", "w", "w", ".", "x", ".", "c", "o">>, 2, <<>>, ""), 0),
     LinkAnchor(Url(3, ""), 6),
     LinkAnchor(Url(3, "top"), 0)}

\* the navigation pages: the anchors of RankedAnchors in every order
RankedPages ==
    {Html(a, <<>>, <<>>) :
        a \in {l \in [1..Cardinality(RankedAnchors) -> RankedAnchors] :
                    \A i, j \in DOMAIN l : l[i] = l[j] => i = j}}

\* the pages: anchors in document order, the matches of EMAIL_RE and of
\* PHONE_RE in the text
Pages ==
    {Html(a, e, ph) :
        a \in BSeq(PageAnchors, MaxAnchors),
        e \in {<<>>, <<EmailLower, EmailUpper>>},
        ph \in {<<>>, <<PhonePlus8, Phone8>>, <<Phone7, Phone15>>, <<Phone6, Phone16>>}}
    \cup RankedPages

\* _extract_contacts_from_html(html, page_url) is called
ExtractContacts ==
    /\ "contacts" \notin ppc
    /\ p_contacts' = _extract_contacts_from_html(p_html, Url(1, ""))
    /\ ppc' = ppc \cup {"contacts"}
    /\ UNCHANGED <<p_html, p_base_url, p_max_links, p_links>>
    /\ UNCHANGED notPageVars

\* _collect_links(html, current_url, base_url) is called
CollectLinks ==
    /\ "links" \notin ppc
    /\ p_links' = _collect_links(p_html, p_base_url, p_max_links)
    /\ ppc' = ppc \cup {"links"}
    /\ UNCHANGED <<p_html, p_base_url, p_max_links, p_contacts>>
    /\ UNCHANGED notPageVars

PageInit ==
    /\ CrawlIdle
    /\ EnrichIdle
    /\ ClientIdle
    /\ JobIdle
    /\ StatusIdle
    /\ PoolIdle
    /\ p_html \in Pages
    /\ p_base_url \in {Url(1, ""), UrlAt("https", <<"w", "w", "w", ".", "x", ".", "c", "o">>, 1, <<>>, "")}
    /\ p_max_links \in {1, MaxAnchors}
    /\ ppc = {}
    /\ p_contacts = <<>>
    /\ p_links = <<>>

PageNext == ExtractContacts \/ CollectLinks

SpecPage == PageInit /\ [][PageNext]_vars

(***************************************************************************)
(* Properties of the page functions                                        *)
(***************************************************************************)
\* the host of a netloc without its port and without a leading "www."
Registrable(netloc) ==
    LET host == BeforeFirst(netloc, ":")
        www == <<"w", "w", "w", ".">>
    IN  IF StartsWith(host, www) THEN SubSeq(host, Len(www) + 1, Len(host)) ELSE host

\* the host is the seed's domain or a subdomain of it
DomainMatches(netloc, seed_netloc) ==
    \/ Registrable(netloc) = Registrable(seed_netloc)
    \/ EndsWith(Registrable(netloc), <<".">> \o Registrable(seed_netloc))

\* C16: every link _collect_links returns has an http or https scheme, a
\* path that does not end in a skip extension, and a host that is the seed's
\* domain or a subdomain of it.
C16_LinksInScope ==
    "links" \in ppc =>
        \A i \in 1..Len(p_links) :
            /\ p_links[i].scheme \in {"http", "https"}
            /\ \A ext \in skip_ext : ~EndsWith(Lower(p_links[i].ext), ext)
            /\ DomainMatches(p_links[i].netloc, p_base_url.netloc)

\* the anchors of the page that are eligible links and the first of their
\* normalized URL, by position in the document
FirstEligible(html, base_url) ==
    {i \in 1..Len(html.anchors) :
        /\ ~Dropped(html.anchors[i], base_url)
        /\ \A j \in 1..(i - 1) :
              _normalize_url(html.anchors[j].target) # _normalize_url(html.anchors[i].target)}

\* how many eligible links go before the link at position i: those of a
\* higher score, and those of the same score earlier in the document
RankOf(html, base_url, i) ==
    Cardinality({k \in FirstEligible(html, base_url) :
        \/ html.anchors[k].score > html.anchors[i].score
        \/ html.anchors[k].score = html.anchors[i].score /\ k < i})

\* C28: _collect_links returns the eligible links of the page, each
\* normalized URL once, by descending score and, within a score, in
\* document order, cut to the first max_links_per_page.
C28_StableSortThenPrefix ==
    "links" \in ppc =>
        LET first == FirstEligible(p_html, p_base_url)
        IN  /\ Len(p_links) = Min(p_max_links, Cardinality(first))
            /\ \A i \in first :
                  RankOf(p_html, p_base_url, i) < Len(p_links)
                     => p_links[RankOf(p_html, p_base_url, i) + 1]
                           = _normalize_url(p_html.anchors[i].target)

\* C28 witness: of four anchors the fourth repeats the URL of the third,
\* the third has the highest score and comes first, the first and the second
\* tie and the first comes next, the second is cut off
C28_Witness ==
    /\ "links" \in ppc
    /\ Len(p_html.anchors) = 4
    /\ p_html.anchors[1].score = p_html.anchors[2].score
    /\ p_html.anchors[3].score > p_html.anchors[1].score
    /\ _normalize_url(p_html.anchors[4].target) = _normalize_url(p_html.anchors[3].target)
    /\ p_html.anchors[4].target # p_html.anchors[3].target
    /\ p_max_links = 2
    /\ p_links = <<_normalize_url(p_html.anchors[3].target),
                   _normalize_url(p_html.anchors[1].target)>>

\* the anchor is a mailto: or tel: anchor whose value is accepted and has
\* this (kind, normalized value)
AnchorProduces(anchor, key) ==
    \/ /\ anchor.scheme = "mailto"
       /\ EMAIL_RE_fullmatch(Strip(BeforeFirst(anchor.rest, "?")))
       /\ key = <<"correo", Lower(Strip(BeforeFirst(anchor.rest, "?")))>>
    \/ /\ anchor.scheme = "tel"
       /\ Len(OnlyDigits(anchor.rest)) \in 7..15
       /\ key = <<"telefono", _normalize_phone(anchor.rest)>>

\* the text of the page holds a match with this (kind, normalized value)
TextProduces(html, key) ==
    \/ \E i \in 1..Len(html.text_emails) : key = <<"correo", Lower(html.text_emails[i])>>
    \/ \E i \in 1..Len(html.text_phones) :
            key = <<"telefono", _normalize_phone(html.text_phones[i])>>

\* C19: the list _extract_contacts_from_html returns holds at most one
\* contact per (kind, normalized value), and a key that a mailto: or tel:
\* anchor produces keeps the anchor's contact, never the one of the text.
C19_OnePerKeyAnchorWins ==
    "contacts" \in ppc =>
        /\ \A i, j \in 1..Len(p_contacts) :
                i # j => NormalizedKey(p_contacts[i]) # NormalizedKey(p_contacts[j])
        /\ \A i \in 1..Len(p_contacts) :
                (\E a \in 1..Len(p_html.anchors) :
                    AnchorProduces(p_html.anchors[a], NormalizedKey(p_contacts[i])))
                => p_contacts[i].descripcion = "anchor"

\* a key produced by both passes, for an address and for a number, and the
\* contact of the anchor kept for each
C19_Witness ==
    /\ "contacts" \in ppc
    /\ p_html.anchors = <<MailtoAnchor(EmailUpper), TelAnchor(PhonePlus)>>
    /\ TextProduces(p_html, <<"correo", EmailLower>>)
    /\ TextProduces(p_html, <<"telefono", PhonePlus8>>)
    /\ Len(p_contacts) = 3
    /\ p_contacts[1] = Contact("correo", EmailUpper, "anchor", Url(1, ""))
    /\ p_contacts[2] = Contact("telefono", PhonePlus8, "anchor", Url(1, ""))

\* the phone tokens of a page: the stripped remainder of each tel: href and
\* each match of PHONE_RE in the text
PhoneTokens(html) ==
    {Strip(html.anchors[i].rest) :
        i \in {a \in 1..Len(html.anchors) : html.anchors[a].scheme = "tel"}}
    \cup {html.text_phones[i] : i \in 1..Len(html.text_phones)}

\* C20: every phone contact has 7 to 15 digits, its value is the digits of
\* a token of the page, and it starts with "+" exactly if the token does.
C20_PhoneDigits ==
    "contacts" \in ppc =>
        \A i \in 1..Len(p_contacts) :
            p_contacts[i].tipo = "telefono" =>
                LET v == p_contacts[i].valor
                    d == OnlyDigits(v)
                IN  /\ 7 <= Len(d)
                    /\ Len(d) <= 15
                    /\ v \in {d, <<"+">> \o d}
                    /\ \E t \in PhoneTokens(p_html) :
                            /\ OnlyDigits(t) = d
                            /\ (Head(v) = "+") <=> (Head(t) = "+")

\* numbers of 6 and of 16 digits left out, numbers of 7 and of 15 kept, and
\* a number with "+" kept with it
C20_Witness ==
    /\ "contacts" \in ppc
    /\ p_html.anchors = <<TelAnchor(Phone6), TelAnchor(PhonePlus)>>
    /\ p_html.text_emails = <<>>
    /\ p_html.text_phones = <<Phone7, Phone15>>
    /\ [i \in 1..Len(p_contacts) |-> p_contacts[i].valor] = <<PhonePlus8, Phone7, Phone15>>

(***************************************************************************)
(* enrichment.py: sort_contacts                                            *)
(***************************************************************************)
\* the characters of the model in the order of their code points
CodePoints ==
    <<" ", "+", "-", ".", "0", "1", "2", "3", "4", "5", "6", "7", "8", "9", "?", "@",
      "A", "B", "C", "O", "S", "W", "X", "a", "b", "c", "o", "s", "w", "x">>

\* ord(c)
Ord(c) == CHOOSE i \in 1..Len(CodePoints) : CodePoints[i] = c

RECURSIVE StrLess(_, _)
\* a < b on strings
StrLess(a, b) ==
    IF b = <<>> THEN FALSE
    ELSE IF a = <<>> THEN TRUE
    ELSE IF Head(a) # Head(b) THEN Ord(Head(a)) < Ord(Head(b))
    ELSE StrLess(Tail(a), Tail(b))

\* the key of sort_contacts: (not valid, site, tipo, valor), the site by the
\* page of its URL and the kind by its name
SortKey(contact) ==
    [invalid |-> IF IsEnriched(contact) /\ contact.validado THEN 0 ELSE 1,
     site |-> IF "sitio" \in DOMAIN contact THEN contact.sitio.page ELSE 0,
     tipo |-> IF contact.tipo = "correo" THEN 0 ELSE 1,
     valor |-> Lower(contact.valor)]

\* k1 < k2 on keys
KeyLess(k1, k2) ==
    IF k1.invalid # k2.invalid THEN k1.invalid < k2.invalid
    ELSE IF k1.site # k2.site THEN k1.site < k2.site
    ELSE IF k1.tipo # k2.tipo THEN k1.tipo < k2.tipo
    ELSE StrLess(k1.valor, k2.valor)

\* one contact put into a sorted list after every contact that is not greater
InsertByKey(sorted, c) ==
    LET before == {i \in 1..Len(sorted) : ~KeyLess(SortKey(c), SortKey(sorted[i]))}
        k == Cardinality(before)
    IN  SubSeq(sorted, 1, k) \o <<c>> \o SubSeq(sorted, k + 1, Len(sorted))

RECURSIVE SortByKey(_, _)
SortByKey(sorted, contacts) ==
    IF contacts = <<>> THEN sorted
    ELSE SortByKey(InsertByKey(sorted, Head(contacts)), Tail(contacts))

\* sort_contacts: sorted is stable
sort_contacts(contacts) == SortByKey(<<>>, contacts)

(***************************************************************************)
(* webapp.py: run_scraper_job                                              *)
(*                                                                         *)
(* One job: for every seed URL a crawl (the actions of run, with the       *)
(* progress callback), then enrich_contacts on the aggregated contacts     *)
(* (the actions of enrich_contacts), then the export and the final update. *)
(* update_job is applied in one step here; its interleaving with readers   *)
(* is the subject of the status model below.                               *)
(***************************************************************************)
NumSites == 2

\* the seed URLs a job is started with: start_job keeps them as typed
JobSeeds == {Url(1, ""), Url(2, "")}

JobUrls == UNION {[1..n -> JobSeeds] : n \in 1..NumSites}

\* CrawlSettings(base_url=url, ...) with the defaults of start_job
JobSettings(url) ==
    [base_url |-> url, max_pages |-> NumUrls, max_depth |-> MaxDepthBound,
     max_links_per_page |-> MaxAnchors]

\* the for loop of run_scraper_job up to scraper.run for the next site
StartSite ==
    /\ jpc = "sites"
    /\ index < Len(urls)
    /\ LET url == urls[index + 1]
           max_pages == JobSettings(url).max_pages
           base_completed_steps == index * max_pages
       IN  /\ settings' = JobSettings(url)
           /\ queue' = <<<<_normalize_url(url), 0>>>>
           /\ visited' = {}
           /\ queued' = {_normalize_url(url)}
           /\ contacts_map' = <<>>
           /\ restricted_detected' = FALSE
           /\ result' = NewCrawlResult
           /\ pc' = "loop"
           /\ fetches' = 0
           /\ slept' = FALSE
           /\ page_contacts' = <<>>
           /\ pages_for_url' = 0
           /\ job' = update_job(job,
                        [status |-> "RUNNING",
                         current_step |-> base_completed_steps,
                         progress |-> <<base_completed_steps, job.total_steps>>,
                         label |-> "start",
                         visited_pages |-> total_visited,
                         explored_links |-> total_links,
                         current_url |-> url,
                         current_url_index |-> index + 1])
    /\ jpc' = "crawl"
    /\ UNCHANGED <<urls, index, all_contacts, aggregated_errors, site_results,
                   total_visited, total_links, completed_steps, restricted_sites,
                   completed_sites, found_contacts, export_raised>>
    /\ UNCHANGED <<enrichVars, notJobVars>>

\* contact.get("url", "").lower(): the URLs of the model are in lower case
LowerUrl(u) == u

RECURSIVE Aggregate(_, _, _)
\* the loop over result.contacts: the first contact of a key is kept, tagged
\* with the site
Aggregate(map, contacts, url) ==
    IF contacts = <<>> THEN map
    ELSE LET contact == Head(contacts)
             key == <<contact.tipo, Lower(contact.valor), LowerUrl(contact.url)>>
         IN  Aggregate(IF ~DictHas(map, key)
                       THEN Append(map, <<key, contact @@ ("sitio" :> url)>>)
                       ELSE map,
                       Tail(contacts), url)

\* run returned: the rest of the body of the for loop
SiteDone ==
    /\ jpc = "crawl"
    /\ pc = "done"
    /\ LET url == urls[index + 1]
           max_pages == settings.max_pages
           steps == Min((index + 1) * max_pages, job.total_steps)
           next_url == IF index + 1 < Len(urls) THEN urls[index + 2] ELSE NoUrl
       IN  /\ total_visited' = total_visited + result.visited_pages
           /\ total_links' = total_links + result.explored_links
           /\ completed_sites' = completed_sites + 1
           /\ restricted_sites' = restricted_sites
                                    + (IF result.status = "RESTRINGIDO" THEN 1 ELSE 0)
           /\ aggregated_errors' =
                 aggregated_errors \o [i \in 1..Len(result.errors) |-> <<url, result.errors[i]>>]
           /\ found_contacts' = (found_contacts \/ result.contacts # <<>>)
           /\ all_contacts' = Aggregate(all_contacts, result.contacts, url)
           /\ site_results' = Append(site_results,
                                     [url |-> url, status |-> result.status,
                                      contacts |-> Len(result.contacts),
                                      errors |-> result.errors])
           /\ completed_steps' = steps
           /\ job' = update_job(job,
                        [current_step |-> steps,
                         progress |-> <<steps, job.total_steps>>,
                         visited_pages |-> total_visited + result.visited_pages,
                         explored_links |-> total_links + result.explored_links,
                         label |-> "site done",
                         current_url |-> next_url,
                         current_url_index |-> index + 1])
    /\ index' = index + 1
    /\ jpc' = "sites"
    /\ UNCHANGED <<urls, pages_for_url, export_raised>>
    /\ UNCHANGED <<crawlVars, enrichVars, notJobVars>>

\* the overall status of the job
OverallStatus ==
    IF found_contacts THEN "OK"
    ELSE IF restricted_sites = Len(urls) THEN "RESTRINGIDO"
    ELSE IF restricted_sites > 0 THEN "RESTRINGIDO"
    ELSE "NO_ENCONTRADO"

\* the keyword arguments of the final update_job
FinalUpdate(contacts, file_path, notices) ==
    [status |-> OverallStatus, progress |-> <<1, 1>>, current_step |-> job.total_steps,
     visited_pages |-> total_visited, explored_links |-> total_links,
     contacts |-> contacts, errors |-> aggregated_errors, file_path |-> file_path,
     completed_at |-> "set", finished |-> TRUE, label |-> "done",
     site_results |-> site_results, current_url |-> NoUrl,
     current_url_index |-> completed_sites, notices |-> notices]

\* the keyword arguments of the except Exception clause without finished
FailureUpdateUnfinished(exc) ==
    [status |-> "ERROR", error_message |-> exc, progress |-> <<1, 1>>,
     current_step |-> job.total_steps, completed_at |-> "set", label |-> "error"]

\* the keyword arguments of update_job in the except Exception clause
FailureUpdate(exc) ==
    [status |-> "ERROR", error_message |-> exc, progress |-> <<1, 1>>,
     current_step |-> job.total_steps, completed_at |-> "set", finished |-> TRUE,
     label |-> "error"]

\* the loop over the sites is over: without contacts the final update_job,
\* with contacts the call of enrich_contacts
StartEnrich ==
    /\ jpc = "sites"
    /\ index = Len(urls)
    /\ IF DictValues(all_contacts) = <<>>
       THEN /\ job' = update_job(job, FinalUpdate(<<>>, "None", <<>>))
            /\ jpc' = "done"
            /\ UNCHANGED enrichVars
       ELSE /\ contacts_list' = DictValues(all_contacts)
            /\ api_key' \in BOOLEAN
            /\ epc' = "call"
            /\ jpc' = "enrich"
            /\ UNCHANGED <<job, max_contacts, start, enriched, enriched_obj, notes,
                           invalid_count,
                           flagged_count, stack, ret, requests, splits>>
    /\ UNCHANGED <<urls, index, all_contacts, aggregated_errors, site_results,
                   total_visited, total_links, completed_steps, restricted_sites,
                   completed_sites, found_contacts, pages_for_url, export_raised>>
    /\ UNCHANGED <<crawlVars, notJobVars>>

\* enrich_contacts returned or raised: sort_contacts, the export and the final
\* update_job, or the except Exception clause; the exception enrich_contacts
\* raises is an AttributeError, which the except RuntimeError clause lets pass
FinishJob ==
    /\ jpc = "enrich"
    /\ epc \in {"returned", "raised"}
    /\ IF epc = "raised"
       THEN /\ job' = update_job(job, FailureUpdate("AttributeError"))
            /\ export_raised' = FALSE
       ELSE \E raised \in BOOLEAN, sorted \in {sort_contacts(enriched)} :
               /\ export_raised' = raised
               /\ job' = IF raised
                         THEN update_job(job, FailureUpdate("export"))
                         ELSE update_job(job, FinalUpdate(sorted, "set", notes))
    /\ jpc' = "done"
    /\ UNCHANGED <<urls, index, all_contacts, aggregated_errors, site_results,
                   total_visited, total_links, completed_steps, restricted_sites,
                   completed_sites, found_contacts, pages_for_url>>
    /\ UNCHANGED <<crawlVars, enrichVars, notJobVars>>

\* scraper.run raises an exception it does not handle (the parser, the
\* session): the except Exception clause of run_scraper_job ends the job
CrawlRaises ==
    /\ jpc = "crawl"
    /\ pc = "loop"
    /\ job' = update_job(job, FailureUpdate("crawl"))
    /\ jpc' = "done"
    /\ pc' = "raised"
    /\ UNCHANGED <<urls, index, all_contacts, aggregated_errors, site_results,
                   total_visited, total_links, completed_steps, restricted_sites,
                   completed_sites, found_contacts, pages_for_url, export_raised>>
    /\ UNCHANGED <<settings, queue, visited, queued, contacts_map, restricted_detected,
                   result, fetches, slept, page_contacts>>
    /\ UNCHANGED <<enrichVars, notJobVars>>

\* run_scraper_job is started by the executor on a job start_job stored
JobInit ==
    /\ CrawlIdle
    /\ EnrichIdle
    /\ ClientIdle
    /\ PageIdle
    /\ StatusIdle
    /\ PoolIdle
    /\ urls \in JobUrls
    /\ jpc = "sites"
    /\ job = NewJobData(Max(1, Len(urls) * NumUrls))
    /\ index = 0
    /\ all_contacts = <<>>
    /\ aggregated_errors = <<>>
    /\ site_results = <<>>
    /\ total_visited = 0
    /\ total_links = 0
    /\ completed_steps = 0
    /\ restricted_sites = 0
    /\ completed_sites = 0
    /\ found_contacts = FALSE
    /\ pages_for_url = 0
    /\ export_raised = FALSE

JobNext ==
    \/ StartSite \/ Iterate \/ Return \/ CrawlRaises \/ SiteDone \/ StartEnrich
    \/ EnrichCall \/ NextChunk \/ Respond \/ BisectOrFail \/ Resume \/ ChunkDone
    \/ FinishJob

SpecJob == JobInit /\ [][JobNext]_vars

\* the worker thread of the job keeps taking steps
FairSpecJob == SpecJob /\ WF_vars(JobNext)

(***************************************************************************)
(* Properties of respond                                                   *)
(***************************************************************************)
\* the service marks the response as not complete
MarkedIncomplete(response) ==
    response.status \notin {"None", "completed"} \/ response.reason

\* the combined text is empty or does not end with a closing brace
Truncated(text) == TextEmpty(text) \/ ~EndsWithBrace(text)

\* C14: respond never returns a response marked with a non-completed status
\* or an incompleteness reason whose text is empty or does not end with a
\* closing brace, nor any response whose text is empty; the attempt that got
\* such a response fails with a RetryableError.
C14_CompletenessCheck ==
    LET response == r_response
        rejected == \/ MarkedIncomplete(response) /\ Truncated(response.text)
                    \/ TextEmpty(response.text)
    IN  /\ rpc = "returned" => ~rejected
        /\ (rpc # "retry" \/ r_attempt > 0) /\ response.error = "None" /\ rejected
              => (rpc # "returned" /\ r_last = "RetryableError")

\* C14 witness: respond returned, after one retry, a response with a reason
\* of incompleteness and a completed status whose text ends with a brace
C14_Witness ==
    /\ rpc = "returned"
    /\ r_attempt = 1
    /\ r_response.reason
    /\ r_response.status = "completed"
    /\ r_response.text.wrap = "prose"
    /\ r_result.content = r_response.text


(***************************************************************************)
(* Properties of enrich_contacts and _query_contacts_with_retry            *)
(***************************************************************************)
AllEnriched == \A i \in 1..Len(enriched) : IsEnriched(enriched[i])

AllOriginal == enriched = contacts_list

\* C5 as stated: whenever enrich_contacts returns, it returns N contacts,
\* all of them enriched or all of them the originals, for any chunk size.
C5_AllOrNothing ==
    epc = "returned" =>
        /\ Len(enriched) = Len(contacts_list)
        /\ AllEnriched \/ AllOriginal

\* the chunk (0-based) of the contact at position i (1-based)
ChunkOf(i) == (i - 1) \div Step

\* C5 amended: whenever enrich_contacts returns, it returns N contacts, the
\* i-th being the i-th input contact enriched or unmodified, and the
\* contacts of one chunk are all enriched or all unmodified; with one chunk
\* (the default chunk size) that is all N.
C5_AllOrNothingPerChunk ==
    epc = "returned" =>
        /\ Len(enriched) = Len(contacts_list)
        /\ \A i \in 1..Len(enriched) :
                IF IsEnriched(enriched[i])
                THEN \A f \in DOMAIN contacts_list[i] : enriched[i][f] = contacts_list[i][f]
                ELSE enriched[i] = contacts_list[i]
        /\ \A i, j \in 1..Len(enriched) :
                ChunkOf(i) = ChunkOf(j) => (IsEnriched(enriched[i]) <=> IsEnriched(enriched[j]))
        /\ Step >= Len(contacts_list) => (AllEnriched \/ AllOriginal)

\* C5 witness: enrich_contacts returned a chunk enriched, one of its contacts
\* marked invalid, after another chunk was returned unmodified
C5_Witness ==
    /\ epc = "returned"
    /\ Len(enriched) = 3
    /\ ~IsEnriched(enriched[1])
    /\ IsEnriched(enriched[2]) /\ enriched[2].validado
    /\ IsEnriched(enriched[3]) /\ ~enriched[3].validado

\* C6: with a credential configured, enrich_contacts never raises outward,
\* whatever the service answers.
C6_NeverRaises == api_key => epc # "raised"

\* C7: without a credential and with a non-empty input, enrich_contacts
\* returns the input contacts unchanged and in order and exactly one
\* configuration note, and no request is ever issued.
C7_NoCredential ==
    (~api_key /\ contacts_list # <<>>) =>
        /\ requests = 0
        /\ stack = <<>>
        /\ epc \in {"call", "returned"}
        /\ epc = "returned" => (enriched = contacts_list /\ notes = <<ConfigNote>>)

\* C7 witness: three contacts returned without a credential
C7_Witness ==
    /\ ~api_key
    /\ Len(contacts_list) = 3
    /\ epc = "returned"
    /\ Len(enriched) = 3

\* C8: when the answer to the primary prompt fails the parsing contract, the
\* strict prompt is attempted on the same batch next.
C8_StrictAfterParseFailure ==
    [][(/\ stack # <<>>
        /\ Top.phase = "try"
        /\ Top.idx = 0
        /\ Len(stack') = Len(stack)
        /\ Top'.last_exc = "ValueError")
       => (Top'.phase = "try" /\ Top'.idx = 1 /\ Top'.chunk = Top.chunk)]_vars

\* C26: when respond gives up on the primary prompt after its last attempt
\* with an error of the transient vocabulary, the strict prompt is attempted
\* on the same batch next.
C26_StrictAfterTransient ==
    [][(/\ stack # <<>>
        /\ Top.phase = "try"
        /\ Top.idx = 0
        /\ Top.attempt = RetryAttempts - 1
        /\ Len(stack') = Len(stack)
        /\ Top'.last_exc \in {"RateLimitError", "APITimeoutError"})
       => (Top'.phase = "try" /\ Top'.idx = 1 /\ Top'.chunk = Top.chunk)]_vars

\* an exception that is no RetryableError and has no message of the
\* transient vocabulary
NonRetryable(exc) ==
    exc \notin {"None", "RetryableError", "RateLimitError", "APITimeoutError"}

\* the attempt of the primary prompt ends with a non-retryable exception:
\* the loop over the prompts is left, the strict prompt is not attempted
C27_AbortStep ==
    (/\ stack # <<>>
     /\ Top.phase = "try"
     /\ Top.idx = 0
     /\ Len(stack') = Len(stack)
     /\ NonRetryable(Top'.last_exc))
    => (Top'.phase = "after_loop" /\ Top'.idx = 0 /\ Top'.chunk = Top.chunk)

\* after the loop was left that way: a batch of more than one contact is
\* split and its left half is tried, a batch of one raises the exception
C27_BisectOrFailStep ==
    (/\ stack # <<>>
     /\ Top.phase = "after_loop"
     /\ Top.idx = 0
     /\ NonRetryable(Top.last_exc)
     /\ stack' # stack)
    => IF Len(Top.chunk) > 1
       THEN /\ Len(stack') = Len(stack) + 1
            /\ stack'[Len(stack)].phase = "left"
            /\ stack'[Len(stack)].chunk = Top.chunk
            /\ Top'.phase = "try"
            /\ Top'.idx = 0
            /\ Top'.chunk = SubSeq(Top.chunk, 1, Len(Top.chunk) \div 2)
            /\ requests' = requests
       ELSE /\ stack' = SubSeq(stack, 1, Len(stack) - 1)
            /\ ret'.kind = "exc"
            /\ ret'.exc = Top.last_exc
            /\ requests' = requests

\* C27: a non-retryable exception while the primary prompt is attempted ends
\* both attempts: no request with the strict prompt is made for the batch,
\* which is split if it holds more than one contact, and otherwise the
\* exception is raised.
C27_NonRetryableAborts == [][C27_AbortStep /\ C27_BisectOrFailStep]_vars

\* C27 witness: the only request so far, with the primary prompt for the
\* whole batch, failed, and the left half of the batch is about to be tried
C27_Witness ==
    /\ requests = 1
    /\ splits = 1
    /\ Len(stack) = 2
    /\ stack[1].phase = "left"
    /\ Len(stack[1].chunk) > 1
    /\ Top.phase = "try"
    /\ Top.idx = 0
    /\ Top.attempt = 0

\* results answer the contacts of chunk, one each and in order
Answers(results, chunk) ==
    /\ Len(results) = Len(chunk)
    /\ \A i \in 1..Len(chunk) : results[i].about = chunk[i].valor

\* the batch of the call that just returned: the chunk of enrich_contacts or
\* the half its caller is waiting for
ReturnedBatch ==
    IF stack = <<>> THEN ChunkAt(start)
    ELSE LET n == Len(Top.chunk)
         IN  IF Top.phase = "left" THEN SubSeq(Top.chunk, 1, n \div 2)
             ELSE SubSeq(Top.chunk, (n \div 2) + 1, n)

\* C9: a batch of n > 1 that fails is split into its first floor(n/2)
\* contacts and the rest, and the call returns the left results followed by
\* the right results: n items, the i-th for the i-th contact.
C9_BisectionOrder ==
    /\ \A k \in 1..(Len(stack) - 1) :
          LET n == Len(stack[k].chunk)
          IN  /\ stack[k].phase \in {"left", "right"}
              /\ stack[k].phase = "left" =>
                    stack[k + 1].chunk = SubSeq(stack[k].chunk, 1, n \div 2)
              /\ stack[k].phase = "right" =>
                    /\ stack[k + 1].chunk = SubSeq(stack[k].chunk, (n \div 2) + 1, n)
                    /\ Answers(stack[k].left_results, SubSeq(stack[k].chunk, 1, n \div 2))
    /\ (epc = "query" /\ ret.kind = "value") => Answers(ret.value, ReturnedBatch)

\* C9 witness: a batch of 3 was split into 1 and 2 and its call returned
C9_Witness ==
    /\ epc = "query"
    /\ stack = <<>>
    /\ ret.kind = "value"
    /\ Len(ret.value) = 3
    /\ splits = 1

RECURSIVE CeilLog2(_)
\* the least k with 2^k >= n
CeilLog2(n) == IF n <= 1 THEN 0 ELSE 1 + CeilLog2((n + 1) \div 2)

C10_Depth ==
    /\ \A k \in 1..Len(stack) : stack[k].chunk # <<>>
    /\ \A k \in 1..Len(stack) :
          stack[k].phase \in {"left", "right"} => Len(stack[k].chunk) > 1
    /\ stack # <<>> => Len(stack) - 1 <= CeilLog2(Len(stack[1].chunk))

C10_FailureOfOnePropagates ==
    (/\ stack # <<>>
     /\ Top.phase = "after_loop"
     /\ Len(Top.chunk) = 1
     /\ stack' # stack)
    => (/\ stack' = Pop
        /\ ret'.kind = "exc"
        /\ ret'.exc = Top.last_exc)

\* C10: bisection terminates: the recursion depth is at most ceil(log2(N)),
\* a batch of one never recurses and its failure goes to the caller, no call
\* is made on an empty batch, and enrich_contacts comes to an end.
C10_BisectionTerminates ==
    /\ []C10_Depth
    /\ [][C10_FailureOfOnePropagates]_vars
    /\ <>(epc \in {"returned", "raised"})

\* C10 witness: a batch of 3 at recursion depth 2 = ceil(log2(3)), a batch
\* of one on top
C10_Witness ==
    /\ Len(stack) = 3
    /\ Len(stack[1].chunk) = 3
    /\ Len(Top.chunk) = 1
    /\ Top.phase = "after_loop"

\* the last sub-batch of the bisection of the whole input, a batch of one,
\* is about to fail for good, every sub-batch before it having been answered
\* with well-formed items
LastSingleFails ==
    /\ epc = "query"
    /\ ret.kind = "none"
    /\ Len(stack) >= 2
    /\ stack[1].chunk = contacts_list
    /\ Top.phase = "after_loop"
    /\ Len(Top.chunk) = 1
    /\ \A k \in 1..(Len(stack) - 1) :
          /\ stack[k].phase = "right"
          /\ Answers(stack[k].left_results, LeftHalf(stack[k].chunk))
          /\ \A i \in 1..Len(stack[k].left_results) :
                stack[k].left_results[i].shape = "dict"

\* the positions of the returned list that hold an enriched contact
EnrichedPositions == {i \in 1..Len(enriched) : IsEnriched(enriched[i])}

\* C11: when exactly one contact's batch of one fails for good and every
\* other sub-batch of the bisection of a batch of N > 1 was answered,
\* enrich_contacts returns the other N - 1 contacts enriched.
C11_OneBadItemIsolated ==
    LastSingleFails ~>
        (/\ epc = "returned"
         /\ Len(enriched) = Len(contacts_list)
         /\ Cardinality(EnrichedPositions) >= Len(contacts_list) - 1)

\* the result item applied to the returned contact at position i is the one
\* the service wrote about that contact
AppliedItemMatches(i) ==
    "descripcion_enriquecida" \in DOMAIN enriched[i] =>
        enriched[i].descripcion_enriquecida = <<"r", enriched[i].valor[1]>>

\* C12: a response is accepted only with the indices 1..N each once, and the
\* item with indice i is the one applied to the contact at position i of the
\* batch, whatever order the items arrive in.
C12_ItemsAppliedByIndex ==
    epc \in {"chunks", "returned"} =>
        \A i \in 1..Len(enriched) : AppliedItemMatches(i)

\* the locals of _retry in every running call of respond: at most
\* RetryAttempts requests, and a request after the first only after a failure
\* that was a RetryableError or had a message of the transient vocabulary
C13_RetryLocals ==
    \A k \in 1..Len(stack) :
        stack[k].phase = "try" =>
            /\ stack[k].attempt \in 0..(RetryAttempts - 1)
            /\ stack[k].attempt = 0 => stack[k].last = "None"
            /\ stack[k].attempt > 0 =>
                  (stack[k].last = "RetryableError" \/ HasTransientToken(stack[k].last))

\* the request of this step ended the call of respond of the top frame
\* without a result being returned to the caller of _query_contacts_with_retry
RespondEnded ==
    /\ requests' = requests + 1
    /\ Len(stack') = Len(stack)
    /\ (Top'.idx # Top.idx \/ Top'.phase = "after_loop")

\* a call of respond that raises a retryable error does so after its third
\* request, the error being the one of that request; one that returns or
\* raises issues no further request
C13_RaiseAfterThird ==
    RespondEnded =>
        /\ (Top'.last_exc = "RetryableError" \/ HasTransientToken(Top'.last_exc))
              => Top.attempt = RetryAttempts - 1
        /\ Top'.phase = "try" => (Top'.attempt = 0 /\ Top'.last = "None")

\* C13: one call of respond issues at most 3 requests, a further one only
\* after a RetryableError or a transient error; a success is returned at
\* once, any other error propagates at once, and after the third retryable
\* failure the last retryable error is raised.
C13_RetryBudget ==
    /\ []C13_RetryLocals
    /\ [][C13_RaiseAfterThird]_vars

\* C13 witness: the third request of one call of respond failed with a rate
\* limit error after two retries, and respond raised it
C13_Witness ==
    /\ requests = RetryAttempts
    /\ Len(stack) = 1
    /\ Top.phase = "after_loop"
    /\ Top.idx = 0
    /\ Top.attempt = RetryAttempts - 1
    /\ Top.last = "RateLimitError"
    /\ Top.last_exc = "RateLimitError"

(***************************************************************************)
(* webapp.py: update_job in the worker thread, job_status in a request     *)
(* thread                                                                  *)
(*                                                                         *)
(* The worker thread of a job of one site makes the calls of update_job of *)
(* run_scraper_job in their order; kwargs are set one setattr at a time    *)
(* while jobs_lock is held.  The request thread serves job_status again    *)
(* and again: get_job holds jobs_lock for the lookup only, to_dict then    *)
(* reads the attributes of the job one at a time.                          *)
(***************************************************************************)
StatusUrl == Url(1, "")

\* total_steps of a job of one site
StatusSteps == Max(1, 1 * JobSettings(StatusUrl).max_pages)

\* contacts_list of a job that found one address
StatusContacts ==
    <<Contact("correo", EmailLower, "text", StatusUrl) @@ ("sitio" :> StatusUrl)>>

StatusSiteResults ==
    <<[url |-> StatusUrl, status |-> "OK", contacts |-> 1, errors |-> <<>>]>>

\* the kwargs of the calls of update_job of run_scraper_job in the order they
\* are written, for a site of one page; the last call is the final one or the
\* one of the except Exception clause
UpdateCalls ==
    <<  {<< <<"total_steps", StatusSteps>> >>},
        {<< <<"status", "RUNNING">>, <<"current_step", 0>>,
            <<"progress", <<0, StatusSteps>>>>, <<"label", "start">>,
            <<"visited_pages", 0>>, <<"explored_links", 0>>,
            <<"current_url", StatusUrl>>, <<"current_url_index", 1>> >>},
        {<< <<"status", "RUNNING">>, <<"current_step", 1>>,
            <<"progress", <<1, StatusSteps>>>>, <<"label", "page">>,
            <<"visited_pages", 1>>, <<"explored_links", 0>>,
            <<"current_url", StatusUrl>>, <<"current_url_index", 1>> >>},
        {<< <<"current_step", StatusSteps>>, <<"progress", <<StatusSteps, StatusSteps>>>>,
            <<"visited_pages", 1>>, <<"explored_links", 0>>, <<"label", "site done">>,
            <<"current_url", NoUrl>>, <<"current_url_index", 1>> >>},
        {<< <<"status", "OK">>, <<"progress", <<1, 1>>>>, <<"current_step", StatusSteps>>,
            <<"visited_pages", 1>>, <<"explored_links", 0>>,
            <<"contacts", StatusContacts>>, <<"errors", <<>>>>, <<"file_path", "set">>,
            <<"completed_at", "set">>, <<"finished", TRUE>>, <<"label", "done">>,
            <<"site_results", StatusSiteResults>>, <<"current_url", NoUrl>>,
            <<"current_url_index", 1>>, <<"notices", <<>>>> >>,
         << <<"status", "ERROR">>, <<"error_message", "RuntimeError">>,
            <<"progress", <<1, 1>>>>, <<"current_step", StatusSteps>>,
            <<"completed_at", "set">>, <<"finished", TRUE>>, <<"label", "error">> >>} >>

\* update_job: with jobs_lock
UpdateAcquire ==
    /\ wpc = "idle"
    /\ w_call < Len(UpdateCalls)
    /\ jobs_lock = "free"
    /\ jobs_lock' = "worker"
    /\ wpc' = "locked"
    /\ w_call' = w_call + 1
    /\ \E kwargs \in UpdateCalls[w_call + 1] : w_pending' = kwargs
    /\ UNCHANGED <<s_job, rdpc, s_seen, s_snapshot, committed>>
    /\ UNCHANGED notStatusVars

\* update_job: one turn of the loop over kwargs.items()
SetAttr ==
    /\ wpc = "locked"
    /\ w_pending # <<>>
    /\ LET key == Head(w_pending)[1]
           value == Head(w_pending)[2]
       IN  s_job' = IF key \in DOMAIN s_job
                    THEN [f \in DOMAIN s_job |-> IF f = key THEN value ELSE s_job[f]]
                    ELSE s_job
    /\ w_pending' = Tail(w_pending)
    /\ UNCHANGED <<jobs_lock, wpc, w_call, rdpc, s_seen, s_snapshot, committed>>
    /\ UNCHANGED notStatusVars

\* update_job: the loop is over, jobs_lock is released
UpdateRelease ==
    /\ wpc = "locked"
    /\ w_pending = <<>>
    /\ jobs_lock' = "free"
    /\ wpc' = "idle"
    /\ committed' = committed \cup {s_job}
    /\ UNCHANGED <<s_job, w_call, w_pending, rdpc, s_seen, s_snapshot>>
    /\ UNCHANGED notStatusVars

\* job_status: get_job takes jobs_lock
GetJobAcquire ==
    /\ rdpc = "idle"
    /\ jobs_lock = "free"
    /\ jobs_lock' = "request"
    /\ rdpc' = "locked"
    /\ UNCHANGED <<s_job, wpc, w_call, w_pending, s_seen, s_snapshot, committed>>
    /\ UNCHANGED notStatusVars

\* job_status: get_job returns the job and releases jobs_lock
GetJobRelease ==
    /\ rdpc = "locked"
    /\ jobs_lock' = "free"
    /\ rdpc' = "to_dict"
    /\ s_seen' = <<>>
    /\ UNCHANGED <<s_job, wpc, w_call, w_pending, s_snapshot, committed>>
    /\ UNCHANGED notStatusVars

\* the attributes to_dict reads, in the order it reads them: progress for
\* progress_percent, then the entries of the dict display; the entry
\* "contacts" reads finished, status and contacts, "contacts_count" reads
\* contacts again
ReadOrder ==
    <<"progress", "status", "finished", "progress", "label", "visited_pages",
      "explored_links", "errors", "error_message", "finished", "status", "contacts",
      "contacts", "current_url", "current_url_index", "site_results", "notices",
      "file_path">>

\* self.contacts if self.finished and self.status != "ERROR" else []: the
\* reads the conditional expression leaves out after the read at position n
SkippedAfter(n, value) ==
    IF n = 10 /\ value = FALSE THEN <<"ERROR", <<>>>>
    ELSE IF n = 11 /\ value = "ERROR" THEN << <<>> >>
    ELSE <<>>

\* to_dict: the next attribute is read
ReadAttr ==
    /\ rdpc = "to_dict"
    /\ Len(s_seen) < Len(ReadOrder)
    /\ LET n == Len(s_seen) + 1
           value == s_job[ReadOrder[n]]
       IN  s_seen' = Append(s_seen, value) \o SkippedAfter(n, value)
    /\ UNCHANGED <<s_job, jobs_lock, wpc, w_call, w_pending, rdpc, s_snapshot, committed>>
    /\ UNCHANGED notStatusVars

\* the dict to_dict returns from the values it read
DictOf(seen) ==
    [status |-> seen[2], finished |-> seen[3], progress |-> seen[4],
     progress_percent |-> Max(0, Min(100, RoundPercent(seen[1][1], seen[1][2]))),
     label |-> seen[5], visited_pages |-> seen[6], explored_links |-> seen[7],
     errors |-> seen[8], error_message |-> seen[9],
     contacts |-> IF seen[10] /\ seen[11] # "ERROR" THEN seen[12] ELSE <<>>,
     contacts_count |-> Len(seen[13]), current_url |-> seen[14],
     current_url_index |-> seen[15], site_results |-> seen[16], notices |-> seen[17],
     download_url |-> IF seen[18] # "None" THEN "download" ELSE "None"]

\* job_status: to_dict returns and the dict is the answer
StatusReturn ==
    /\ rdpc = "to_dict"
    /\ Len(s_seen) = Len(ReadOrder)
    /\ s_snapshot' = DictOf(s_seen)
    /\ rdpc' = "answered"
    /\ UNCHANGED <<s_job, jobs_lock, wpc, w_call, w_pending, s_seen, committed>>
    /\ UNCHANGED notStatusVars

\* the page asks for the status again
StatusRequest ==
    /\ rdpc = "answered"
    /\ rdpc' = "idle"
    /\ s_seen' = <<>>
    /\ UNCHANGED <<s_job, jobs_lock, wpc, w_call, w_pending, s_snapshot, committed>>
    /\ UNCHANGED notStatusVars

\* start_job stored the job and submitted run_scraper_job
StatusInit ==
    /\ CrawlIdle
    /\ EnrichIdle
    /\ ClientIdle
    /\ JobIdle
    /\ PageIdle
    /\ PoolIdle
    /\ s_job = NewJobData(StatusSteps)
    /\ jobs_lock = "free"
    /\ wpc = "idle"
    /\ w_call = 0
    /\ w_pending = <<>>
    /\ rdpc = "idle"
    /\ s_seen = <<>>
    /\ s_snapshot = to_dict(NewJobData(StatusSteps))
    /\ committed = {NewJobData(StatusSteps)}

StatusNext ==
    \/ UpdateAcquire \/ SetAttr \/ UpdateRelease
    \/ GetJobAcquire \/ GetJobRelease \/ ReadAttr \/ StatusReturn \/ StatusRequest

SpecStatus == StatusInit /\ [][StatusNext]_vars

(***************************************************************************)
(* ai_client.py: _get_client called by the threads of the job worker pool  *)
(*                                                                         *)
(* Jobs run on the threads of executor (webapp.py); each of them reaches   *)
(* respond through enrich_contacts.  A thread can be suspended between any *)
(* two bytecodes, so the test of _client, the construction with the        *)
(* assignment, and the read of the return statement are steps of their own.*)
(***************************************************************************)
NumThreads == 2       \* threads of the pool that call respond
CallsPerThread == 2   \* calls of respond a thread makes

Threads == 1..NumThreads

\* a thread enters respond and call reaches _get_client()
CallRespond(t) ==
    /\ tpc[t] = "idle"
    /\ t_calls[t] < CallsPerThread
    /\ tpc' = [tpc EXCEPT ![t] = "test"]
    /\ t_calls' = [t_calls EXCEPT ![t] = @ + 1]
    /\ UNCHANGED <<env_key, _client, constructed, t_client>>
    /\ UNCHANGED notPoolVars

\* if _client is None: api_key = os.getenv(...); if not api_key: raise
TestClient(t) ==
    /\ tpc[t] = "test"
    /\ tpc' = [tpc EXCEPT ![t] = IF _client # NoClient THEN "return"
                                  ELSE IF ~env_key THEN "idle"
                                  ELSE "construct"]
    /\ UNCHANGED <<env_key, _client, constructed, t_client, t_calls>>
    /\ UNCHANGED notPoolVars

\* _client = OpenAI(api_key=api_key)
ConstructClient(t) ==
    /\ tpc[t] = "construct"
    /\ constructed' = constructed + 1
    /\ _client' = constructed + 1
    /\ tpc' = [tpc EXCEPT ![t] = "return"]
    /\ UNCHANGED <<env_key, t_client, t_calls>>
    /\ UNCHANGED notPoolVars

\* return _client
ReturnClient(t) ==
    /\ tpc[t] = "return"
    /\ t_client' = [t_client EXCEPT ![t] = _client]
    /\ tpc' = [tpc EXCEPT ![t] = "create"]
    /\ UNCHANGED <<env_key, _client, constructed, t_calls>>
    /\ UNCHANGED notPoolVars

\* _get_client().responses.create(**kwargs), and respond returns or raises
CreateResponse(t) ==
    /\ tpc[t] = "create"
    /\ tpc' = [tpc EXCEPT ![t] = "idle"]
    /\ UNCHANGED <<env_key, _client, constructed, t_client, t_calls>>
    /\ UNCHANGED notPoolVars

PoolInit ==
    /\ CrawlIdle
    /\ EnrichIdle
    /\ ClientIdle
    /\ JobIdle
    /\ PageIdle
    /\ StatusIdle
    /\ env_key \in BOOLEAN
    /\ _client = NoClient
    /\ constructed = 0
    /\ tpc = [t \in Threads |-> "idle"]
    /\ t_client = [t \in Threads |-> NoClient]
    /\ t_calls = [t \in Threads |-> 0]

PoolNext ==
    \E t \in Threads :
        \/ CallRespond(t)
        \/ TestClient(t)
        \/ ConstructClient(t)
        \/ ReturnClient(t)
        \/ CreateResponse(t)

SpecPool == PoolInit /\ [][PoolNext]_vars

\* C33: at most one client object is ever constructed in a process, under
\* any interleaving of the respond calls of the worker threads.
C33_OneClient == constructed <= 1

(***************************************************************************)
(* Properties of run_scraper_job                                           *)
(***************************************************************************)
\* the (tipo, valor, url) of the contacts of a list
Found(contacts) ==
    {<<contacts[i].tipo, contacts[i].valor, contacts[i].url>> : i \in 1..Len(contacts)}

\* C15: a job whose crawls completed and found a contact finishes with a
\* status that is not ERROR and exposes the contacts found, enriched or as
\* found with notes saying so, whatever the completion service returns or
\* raises during the enrichment (the export not failing).
C15_PartialFailureNeverAborts ==
    (jpc = "done" /\ found_contacts /\ ~export_raised) =>
        LET exposed == to_dict(job).contacts
        IN  /\ job.finished
            /\ job.status # "ERROR"
            /\ Found(exposed) = Found(DictValues(all_contacts))
            /\ (\E i \in 1..Len(exposed) : ~IsEnriched(exposed[i])) => job.notices # <<>>

\* the entries of the aggregated contacts with this kind and (normalized)
\* value that are tagged with this site
TaggedEntries(map, contact, url) ==
    {i \in 1..Len(map) :
        /\ NormalizedKey(map[i][2]) = NormalizedKey(contact)
        /\ map[i][2].sitio = url}

\* the crawl of a site of the job returned and its contacts are aggregated
SiteAggregated == jpc = "crawl" /\ jpc' = "sites"

\* the job names no site twice
DistinctSites == \A i, j \in 1..Len(urls) : urls[i] = urls[j] => i = j

\* the crawl result holds each (kind, normalized value) once
OncePerKey(contacts) ==
    \A i, j \in 1..Len(contacts) :
        NormalizedKey(contacts[i]) = NormalizedKey(contacts[j]) => i = j

\* C18: in a job of different sites, when the contacts of a site are
\* aggregated, every (kind, value) of the site's crawl result (which holds it
\* once) has exactly one entry tagged with that site in the aggregated
\* contacts, also when an earlier site reported it from the same page.
C18_OncePerSiteStep ==
    (SiteAggregated /\ DistinctSites /\ OncePerKey(result.contacts)) =>
        \A i \in 1..Len(result.contacts) :
            Cardinality(TaggedEntries(all_contacts', result.contacts[i], urls[index + 1])) = 1

C18_OncePerSite == [][C18_OncePerSiteStep]_vars

(***************************************************************************)
(* Properties of the shared job state                                      *)
(***************************************************************************)
\* two answers of job_status are the same: progress is a quotient, the other
\* entries are compared as they are
SameDict(a, b) ==
    /\ a.progress[1] * b.progress[2] = b.progress[1] * a.progress[2]
    /\ \A f \in DOMAIN a \ {"progress"} : a[f] = b[f]

\* C17: the dict job_status answers is the dict of the job as it was before
\* or after a call of update_job, never one that holds only a part of the
\* fields a call sets.
C17_SnapshotConsistent ==
    rdpc = "answered" =>
        \E j \in committed \cup (IF w_pending = <<>> THEN {s_job} ELSE {}) :
            SameDict(s_snapshot, to_dict(j))

\* every returned contact is a dict created by enrich_contacts
C31_ReturnedAreCopies ==
    /\ Len(enriched_obj) = Len(enriched)
    /\ \A k \in 1..Len(enriched_obj) : enriched_obj[k] = NewObject

\* no item of the argument carries a key enrich_contacts writes
C31_InputPlain ==
    \A i \in 1..Len(contacts_list) :
        DOMAIN contacts_list[i] \cap {"validado", "descripcion_enriquecida", "flags"} = {}

\* C31: enrich_contacts leaves its argument as it was, the list and each
\* contact of it, on every path; the contacts it returns are copies, and
\* validado, descripcion_enriquecida and flags are written to the copies.
C31_InputImmutable ==
    [](C31_ReturnedAreCopies /\ C31_InputPlain) /\ [][contacts_list' = contacts_list]_vars

\* C31 witness: enrich_contacts returned three contacts after a batch was
\* split; one of them was enriched and flagged, one was left as detected
C31_Witness ==
    /\ epc = "returned"
    /\ api_key
    /\ splits >= 1
    /\ Len(enriched) = 3
    /\ \E k \in 1..3 : "flags" \in DOMAIN enriched[k]
    /\ \E k \in 1..3 : ~IsEnriched(enriched[k])
    /\ contacts_list = [k \in 1..3 |-> InputContact(k)]

\* a finished job has progress 1.0 and one of the four final statuses; a job
\* that is not finished is PENDING or RUNNING
C32_FinishedState ==
    IF job.finished
    THEN /\ job.progress[1] = job.progress[2]
         /\ job.status \in {"OK", "RESTRINGIDO", "NO_ENCONTRADO", "ERROR"}
    ELSE job.status \in {"PENDING", "RUNNING"}

\* nothing of a finished job changes; before that the status stays or moves
\* from PENDING to RUNNING
C32_JobStep ==
    /\ job.finished => job' = job
    /\ ~job'.finished =>
          \/ job'.status = job.status
          \/ job.status = "PENDING" /\ job'.status = "RUNNING"

\* C32: every job run_scraper_job runs reaches finished = true, whether the
\* crawls, the enrichment and the export return or raise; finished is set
\* once, with progress 1.0 and a final status, nothing of the job changes
\* afterwards, and before that the status only moves from PENDING to RUNNING.
C32_JobFinishes ==
    /\ <>(job.finished)
    /\ []C32_FinishedState
    /\ [][C32_JobStep]_vars

\* C32 witness: a job of two sites is finished with status ERROR after
\* both sites were crawled and contacts were found
C32_Witness ==
    /\ jpc = "done"
    /\ job.finished
    /\ job.status = "ERROR"
    /\ Len(urls) = 2
    /\ completed_sites = 2
    /\ found_contacts


(***************************************************************************)
(* C34: the requests of one enrich_contacts call                           *)
(***************************************************************************)
\* every batch attempts at most NumPrompts prompts of at most RetryAttempts
\* requests, and N contacts make at most 2N - 1 batches
C34_RequestBound ==
    Len(contacts_list) >= 1
    => requests <= NumPrompts * RetryAttempts * (2 * Len(contacts_list) - 1)

\* C34: enriching N >= 1 contacts issues at most 6 * (2N - 1) requests for
\* every service behaviour, and the call then returns.
C34_BoundedThenReturns ==
    /\ []C34_RequestBound
    /\ <>(epc = "returned")


(***************************************************************************)
(* C35: the visited_pages a job publishes                                  *)
(***************************************************************************)
\* C35: across the update_job calls of run_scraper_job the published
\* visited_pages never decreases, failed fetches included.
C35_VisitedPagesMonotone == [][job'.visited_pages >= job.visited_pages]_vars

====
